---- MODULE Spec2Model ----
(***************************************************************************)
(* A model of the Alexis voice-agent webhook (src/src/index.ts): the       *)
(* sliding-window rate limiter, the search and product caches, the query   *)
(* normalizer, the multi-strategy product search, the tool handlers and    *)
(* the fetch handler that routes a request to them.                        *)
(*                                                                         *)
(* A JavaScript string is a sequence of one-character strings, so that     *)
(* lower-casing, trimming, splitting and the regular expressions are       *)
(* computed character by character, as the code computes them.             *)
(***************************************************************************)
EXTENDS Integers, Sequences, FiniteSets, TLC

(***************************************************************************)
(* Characters and strings                                                  *)
(***************************************************************************)
LowerSeq == <<"a","b","c","d","e","f","g","h","i","j","k","l","m",
              "n","o","p","q","r","s","t","u","v","w","x","y","z">>

UpperSeq == <<"A","B","C","D","E","F","G","H","I","J","K","L","M",
              "N","O","P","Q","R","S","T","U","V","W","X","Y","Z">>

Digits == {"0","1","2","3","4","5","6","7","8","9"}

LowerLetters == {LowerSeq[i] : i \in 1..Len(LowerSeq)}

UpperLetters == {UpperSeq[i] : i \in 1..Len(UpperSeq)}

\* \w of a JavaScript regular expression: [A-Za-z0-9_]
WordChars == LowerLetters \cup UpperLetters \cup Digits \cup {"_"}

\* \s, for the characters the model's inputs use
SpaceChars == {" "}

\* String.prototype.toLowerCase, one character
LowerChar(c) ==
  IF c \in UpperLetters
    THEN LowerSeq[CHOOSE i \in 1..Len(UpperSeq) : UpperSeq[i] = c]
    ELSE c

\* String.prototype.toUpperCase, one character
UpperChar(c) ==
  IF c \in LowerLetters
    THEN UpperSeq[CHOOSE i \in 1..Len(LowerSeq) : LowerSeq[i] = c]
    ELSE c

ToLower(s) == [i \in 1..Len(s) |-> LowerChar(s[i])]

ToUpper(s) == [i \in 1..Len(s) |-> UpperChar(s[i])]

\* s.slice(from - 1, to) in the code's zero-based terms: characters from..to
Slice(s, from, to) ==
  IF from > to THEN <<>> ELSE [i \in 1..(to - from + 1) |-> s[from + i - 1]]

\* String.prototype.trim
Trim(s) ==
  LET keep == {i \in 1..Len(s) : s[i] \notin SpaceChars}
  IN IF keep = {} THEN <<>>
     ELSE Slice(s, CHOOSE i \in keep : \A j \in keep : i <= j,
                   CHOOSE i \in keep : \A j \in keep : i >= j)

\* s.replace(/[...]/g, ''): the characters of "drop" removed
RemoveChars(s, drop) == SelectSeq(s, LAMBDA c : c \notin drop)

\* w occurs in s starting at position p
MatchAt(s, p, w) ==
  /\ p >= 1
  /\ p + Len(w) - 1 <= Len(s)
  /\ \A k \in 1..Len(w) : s[p + k - 1] = w[k]

\* String.prototype.includes
Includes(s, w) == \E p \in 1..(Len(s) + 1) : MatchAt(s, p, w)

\* Array.prototype.join(' ')
RECURSIVE JoinSpace(_)
JoinSpace(ws) ==
  IF Len(ws) = 0 THEN <<>>
  ELSE IF Len(ws) = 1 THEN ws[1]
  ELSE ws[1] \o <<" ">> \o JoinSpace(Tail(ws))

\* s.split(/\s+/): the maximal runs of non-space characters; a string that
\* starts or ends with a space, or is empty, yields empty strings as well
RECURSIVE SplitFrom(_, _, _)
SplitFrom(s, i, cur) ==
  IF i > Len(s) THEN <<cur>>
  ELSE IF s[i] \in SpaceChars
    THEN IF i > 1 /\ s[i - 1] \in SpaceChars
           THEN SplitFrom(s, i + 1, cur)
           ELSE <<cur>> \o SplitFrom(s, i + 1, <<>>)
    ELSE SplitFrom(s, i + 1, Append(cur, s[i]))

SplitSpaces(s) == SplitFrom(s, 1, <<>>)

\* s.replace(/\s+/g, ' ')
RECURSIVE CollapseFrom(_, _)
CollapseFrom(s, i) ==
  IF i > Len(s) THEN <<>>
  ELSE IF s[i] \in SpaceChars
    THEN IF i > 1 /\ s[i - 1] \in SpaceChars
           THEN CollapseFrom(s, i + 1)
           ELSE <<" ">> \o CollapseFrom(s, i + 1)
    ELSE <<s[i]>> \o CollapseFrom(s, i + 1)

CollapseSpaces(s) == CollapseFrom(s, 1)

\* an array kept as it is
KeepAll(xs) == xs

\* [...new Set(xs)]: the first occurrence of each element, in order
RECURSIVE Dedupe(_)
Dedupe(xs) ==
  IF Len(xs) = 0 THEN <<>>
  ELSE LET front == Dedupe(SubSeq(xs, 1, Len(xs) - 1))
           last == xs[Len(xs)]
       IN IF \E i \in 1..Len(front) : front[i] = last
            THEN front ELSE Append(front, last)

SeqToSet(xs) == {xs[i] : i \in 1..Len(xs)}

HasDup(xs) == \E i, j \in 1..Len(xs) : i < j /\ xs[i] = xs[j]

Min2(a, b) == IF a <= b THEN a ELSE b

Max2(a, b) == IF a >= b THEN a ELSE b

(***************************************************************************)
(* Query normalizer: normalizeSearchQuery and its tables                   *)
(***************************************************************************)
\* Stop words to remove from search
SEARCH_STOP_WORDS == {
  <<"t","h","e">>,
  <<"a">>,
  <<"a","n">>,
  <<"a","n","d">>,
  <<"o","r">>,
  <<"b","u","t">>,
  <<"i","n">>,
  <<"o","n">>,
  <<"a","t">>,
  <<"t","o">>,
  <<"f","o","r">>,
  <<"o","f">>,
  <<"w","i","t","h">>,
  <<"b","y">>,
  <<"f","r","o","m">>,
  <<"a","s">>,
  <<"i","s">>,
  <<"w","a","s">>,
  <<"a","r","e">>,
  <<"w","e","r","e">>,
  <<"b","e","e","n">>,
  <<"b","e">>,
  <<"h","a","v","e">>,
  <<"h","a","s">>,
  <<"h","a","d">>,
  <<"d","o">>,
  <<"d","o","e","s">>,
  <<"d","i","d">>,
  <<"w","i","l","l">>,
  <<"w","o","u","l","d">>,
  <<"c","o","u","l","d">>,
  <<"s","h","o","u","l","d">>,
  <<"m","a","y">>,
  <<"m","i","g","h","t">>,
  <<"m","u","s","t">>,
  <<"s","h","a","l","l">>,
  <<"c","a","n">>,
  <<"n","e","e","d">>,
  <<"d","a","r","e">>,
  <<"o","u","g","h","t">>,
  <<"u","s","e","d">>,
  <<"i">>,
  <<"y","o","u">>,
  <<"h","e">>,
  <<"s","h","e">>,
  <<"i","t">>,
  <<"w","e">>,
  <<"t","h","e","y">>,
  <<"w","h","a","t">>,
  <<"w","h","i","c","h">>,
  <<"w","h","o">>,
  <<"w","h","o","m">>,
  <<"t","h","i","s">>,
  <<"t","h","a","t">>,
  <<"t","h","e","s","e">>,
  <<"t","h","o","s","e">>,
  <<"a","m">>,
  <<"l","o","o","k","i","n","g">>,
  <<"w","a","n","t">>,
  <<"f","i","n","d">>,
  <<"s","e","a","r","c","h">>,
  <<"s","h","o","w">>,
  <<"g","e","t">>,
  <<"a","n","y">>,
  <<"s","o","m","e">>,
  <<"s","e","r","i","e","s">>,
  <<"l","i","n","e">>,
  <<"m","o","d","e","l">>,
  <<"t","y","p","e">>,
  <<"k","i","n","d">>,
  <<"v","e","r","s","i","o","n">>,
  <<"g","e","n">>,
  <<"g","e","n","e","r","a","t","i","o","n">>
}

\* Tech brand names to preserve in searches
TECH_BRANDS == {
  <<"n","v","i","d","i","a">>,
  <<"g","e","f","o","r","c","e">>,
  <<"r","t","x">>,
  <<"g","t","x">>,
  <<"r","a","d","e","o","n">>,
  <<"a","m","d">>,
  <<"i","n","t","e","l">>,
  <<"a","r","c">>,
  <<"a","s","u","s">>,
  <<"m","s","i">>,
  <<"g","i","g","a","b","y","t","e">>,
  <<"e","v","g","a">>,
  <<"z","o","t","a","c">>,
  <<"p","a","l","i","t">>,
  <<"p","n","y">>,
  <<"s","a","p","p","h","i","r","e">>,
  <<"c","o","r","s","a","i","r">>,
  <<"k","i","n","g","s","t","o","n">>,
  <<"c","r","u","c","i","a","l">>,
  <<"s","a","m","s","u","n","g">>,
  <<"s","e","a","g","a","t","e">>,
  <<"w","e","s","t","e","r","n">>,
  <<"s","a","n","d","i","s","k">>,
  <<"l","o","g","i","t","e","c","h">>,
  <<"r","a","z","e","r">>,
  <<"s","t","e","e","l","s","e","r","i","e","s">>,
  <<"h","y","p","e","r","x">>,
  <<"c","o","o","l","e","r">>,
  <<"n","z","x","t">>,
  <<"t","h","e","r","m","a","l","t","a","k","e">>,
  <<"d","e","l","l">>,
  <<"h","p">>,
  <<"l","e","n","o","v","o">>,
  <<"a","c","e","r">>,
  <<"a","p","p","l","e">>,
  <<"m","i","c","r","o","s","o","f","t">>,
  <<"s","o","n","y">>,
  <<"l","g">>,
  <<"b","e","n","q">>,
  <<"v","i","e","w","s","o","n","i","c">>,
  <<"p","h","i","l","i","p","s">>,
  <<"a","o","c">>,
  <<"a","l","i","e","n","w","a","r","e">>,
  <<"p","r","e","d","a","t","o","r">>
}

\* REGEX_FILTER_CHARS = /[\[\]|,]/g
FilterChars == {"[", "]", "|", ","}

\* REGEX_QUOTES = /['"]/g
QuoteChars == {"'", "\""}

\* sanitizeSearchQuery: the PrestaShop filter operators removed, then trimmed
sanitizeSearchQuery(query) == Trim(RemoveChars(query, FilterChars))

\* REGEX_SPECIAL_CHARS = /[^\w\s\-\.]/g, each match replaced by a space
ReplaceSpecial(s) ==
  [i \in 1..Len(s) |->
     IF s[i] \in WordChars \cup SpaceChars \cup {"-", "."} THEN s[i] ELSE " "]

\* \b at the place before character p
WordBoundary(s, p) ==
  (p > 1 /\ p - 1 <= Len(s) /\ s[p - 1] \in WordChars)
    # (p >= 1 /\ p <= Len(s) /\ s[p] \in WordChars)

\* the length of the run of spaces that starts at p (a greedy \s*)
RECURSIVE WsRun(_, _)
WsRun(s, p) ==
  IF p <= Len(s) /\ s[p] \in SpaceChars THEN 1 + WsRun(s, p + 1) ELSE 0

\* the length of the run of digits that starts at p (a greedy \d+)
RECURSIVE DigitRun(_, _)
DigitRun(s, p) ==
  IF p <= Len(s) /\ s[p] \in Digits THEN 1 + DigitRun(s, p + 1) ELSE 0

GpuPrefixes == {<<"r","t","x">>, <<"g","t","x">>, <<"r","a","d","e","o","n">>}

GpuTailWords == {<<"s","e","r","i","e","s">>, <<"l","i","n","e">>}

\* the tail \s*(series|line)?\b of REGEX_GPU_SERIES after the two digits,
\* with the backtracking of \s* and of the optional group
GpuTailOk(s, e) ==
  \E k \in 0..WsRun(s, e) :
     \/ WordBoundary(s, e + k)
     \/ \E w \in GpuTailWords :
           MatchAt(s, e + k, w) /\ WordBoundary(s, e + k + Len(w))

\* REGEX_GPU_SERIES = /\b(rtx|gtx|radeon)\s*(\d{2})\s*(series|line)?\b/i
\* matches at p with prefix w
GpuMatchAt(s, p, w) ==
  /\ WordBoundary(s, p)
  /\ MatchAt(ToLower(s), p, w)
  /\ LET d == p + Len(w) + WsRun(s, p + Len(w))
     IN /\ d + 1 <= Len(s)
        /\ s[d] \in Digits
        /\ s[d + 1] \in Digits
        /\ GpuTailOk(ToLower(s), d + 2)

GpuMatches(s) ==
  {m \in (1..Len(s)) \X GpuPrefixes : GpuMatchAt(s, m[1], m[2])}

\* String.prototype.match: the leftmost match, as [found, prefix, seriesNum]
GpuSeriesMatch(s) ==
  IF GpuMatches(s) = {} THEN [found |-> FALSE, prefix |-> <<>>, seriesNum |-> <<>>]
  ELSE LET m == CHOOSE x \in GpuMatches(s) : \A y \in GpuMatches(s) : x[1] <= y[1]
           d == m[1] + Len(m[2]) + WsRun(s, m[1] + Len(m[2]))
       IN [found |-> TRUE,
           prefix |-> Slice(s, m[1], m[1] + Len(m[2]) - 1),
           seriesNum |-> Slice(s, d, d + 1)]

MemUnits == {<<"g","b">>, <<"t","b">>, <<"m","b">>}

\* REGEX_MEM_SPEC = /(\d+)\s*(gb|tb|mb)/i matches at p
MemMatchAt(s, p) ==
  /\ DigitRun(s, p) > 0
  /\ LET u == p + DigitRun(s, p) + WsRun(s, p + DigitRun(s, p))
     IN \E w \in MemUnits : MatchAt(ToLower(s), u, w)

MemMatches(s) == {p \in 1..Len(s) : MemMatchAt(s, p)}

\* the leftmost match, as [found, size, unit]
MemSpecMatch(s) ==
  IF MemMatches(s) = {} THEN [found |-> FALSE, size |-> <<>>, unit |-> <<>>]
  ELSE LET p == CHOOSE x \in MemMatches(s) : \A y \in MemMatches(s) : x <= y
           u == p + DigitRun(s, p) + WsRun(s, p + DigitRun(s, p))
       IN [found |-> TRUE,
           size |-> Slice(s, p, p + DigitRun(s, p) - 1),
           unit |-> Slice(s, u, u + 1)]

\* REGEX_HAS_DIGIT = /\d/
HasDigit(s) == \E i \in 1..Len(s) : s[i] \in Digits

\* REGEX_NUMERIC = /^\d+$/
IsNumeric(s) == Len(s) > 0 /\ \A i \in 1..Len(s) : s[i] \in Digits

GpuSuffixes == << <<"6","0">>, <<"7","0">>, <<"8","0">>, <<"9","0">>,
                  <<"7","0"," ","t","i">>,
                  <<"8","0"," ","s","u","p","e","r">> >>

\* the terms of the query: the words of two or more characters that are
\* no stop words
QueryTerms(cleaned) ==
  SelectSeq(SplitSpaces(cleaned),
            LAMBDA t : Len(t) >= 2 /\ t \notin SEARCH_STOP_WORDS)

\* "brand term" for every brand of the query and each of the first two
\* other terms, brand by brand
RECURSIVE BrandCombos(_, _)
BrandCombos(brands, others) ==
  IF Len(brands) = 0 THEN <<>>
  ELSE [i \in 1..Len(others) |-> brands[1] \o <<" ">> \o others[i]]
         \o BrandCombos(Tail(brands), others)

\* the terms that are a brand or hold a digit, each appended unless the
\* list has it already
RECURSIVE AddSingles(_, _)
AddSingles(vars, terms) ==
  IF Len(terms) = 0 THEN vars
  ELSE LET t == terms[1]
           next == IF (t \in TECH_BRANDS \/ HasDigit(t)) /\ t \notin SeqToSet(vars)
                     THEN Append(vars, t) ELSE vars
       IN AddSingles(next, Tail(terms))

normalizeSearchQuery(rawQuery) ==
  LET original == ToLower(Trim(rawQuery))
      cleaned == Trim(CollapseSpaces(ReplaceSpecial(RemoveChars(original, QuoteChars))))
      terms == QueryTerms(cleaned)
      v1 == IF Len(cleaned) > 0 THEN <<cleaned>> ELSE <<>>
      termQuery == JoinSpace(terms)
      v2 == IF Len(terms) > 1 /\ termQuery # cleaned THEN <<termQuery>> ELSE <<>>
      gpu == GpuSeriesMatch(original)
      v3 == IF gpu.found
              THEN [i \in 1..Len(GpuSuffixes) |->
                      ToUpper(gpu.prefix) \o <<" ">> \o gpu.seriesNum \o GpuSuffixes[i]]
              ELSE <<>>
      mem == MemSpecMatch(original)
      v4 == IF mem.found
              THEN <<mem.size \o ToUpper(mem.unit),
                     mem.size \o <<" ">> \o ToUpper(mem.unit)>>
              ELSE <<>>
      foundBrands == SelectSeq(terms, LAMBDA t : t \in TECH_BRANDS)
      nonBrandTerms ==
        SelectSeq(terms, LAMBDA t : t \notin TECH_BRANDS /\ t \notin SEARCH_STOP_WORDS)
      v5 == IF Len(foundBrands) > 0 /\ Len(nonBrandTerms) > 0
              THEN BrandCombos(foundBrands,
                               SubSeq(nonBrandTerms, 1, Min2(2, Len(nonBrandTerms))))
              ELSE <<>>
      variations == AddSingles(v1 \o v2 \o v3 \o v4 \o v5, terms)
  IN [original |-> original,
      terms |-> terms,
      variations |-> Dedupe(variations)]

(***************************************************************************)
(* Voice response formatter: shortenForListing                             *)
(***************************************************************************)
\* the en dash, U+2013, as one character of a name
EnDash == "EN_DASH"

\* the characters of /[\s,\-–]+/
NameSeparators == SpaceChars \cup {",", "-", EnDash}

\* name.split(/[\s,\-–]+/).filter(w => w.length > 0): the maximal runs
\* of characters that are no separators
RECURSIVE SplitName(_, _, _)
SplitName(name, i, cur) ==
  IF i > Len(name) THEN (IF Len(cur) > 0 THEN <<cur>> ELSE <<>>)
  ELSE IF name[i] \in NameSeparators
    THEN (IF Len(cur) > 0 THEN <<cur>> ELSE <<>>) \o SplitName(name, i + 1, <<>>)
    ELSE SplitName(name, i + 1, Append(cur, name[i]))

ListingWords(name) == SplitName(name, 1, <<>>)

SpecUnits == {<<"g","b">>, <<"t","b">>, <<"m","b">>, <<"m","m">>, <<"c","m">>, <<"m","h","z">>, <<"w">>, <<"m","a","h">>}

\* /^\d+\s*(GB|TB|MB|mm|cm|MHz|W|mAh)/i
UnitSpec(w) ==
  /\ DigitRun(w, 1) > 0
  /\ \E u \in SpecUnits :
        MatchAt(ToLower(w), 1 + DigitRun(w, 1) + WsRun(w, 1 + DigitRun(w, 1)), u)

\* /^\d+x\d+/i
DimensionSpec(w) ==
  /\ DigitRun(w, 1) > 0
  /\ MatchAt(ToLower(w), 1 + DigitRun(w, 1), <<"x">>)
  /\ DigitRun(w, 2 + DigitRun(w, 1)) > 0

FeatureWords == {<<"r","g","b">>, <<"l","e","d">>, <<"l","c","d">>, <<"u","s","b">>, <<"h","d","m","i">>}

\* /^(RGB|LED|LCD|USB|HDMI|DDR\d)/i
FeatureSpec(w) ==
  \/ \E f \in FeatureWords : MatchAt(ToLower(w), 1, f)
  \/ /\ MatchAt(ToLower(w), 1, <<"d","d","r">>)
     /\ Len(w) >= 4
     /\ w[4] \in Digits

\* the test of the loop: the word begins a technical specification
IsSpecWord(w) == UnitSpec(w) \/ DimensionSpec(w) \/ FeatureSpec(w)

\* the index i, from 0, at which the loop breaks, -1 when it runs to the end
FirstSpecIndex(words) ==
  LET hits == {i \in 1..Len(words) : IsSpecWord(words[i])}
  IN IF hits = {} THEN -1
     ELSE (CHOOSE i \in hits : \A j \in hits : i <= j) - 1

\* a cutoff at the specification itself
SpecCutoffExact(i) == i

\* cutoff = Math.max(3, i)
SpecCutoff(i) == Max2(3, i)

\* let cutoff = words.length, replaced in the loop at the first specification
ListingCutoff(words) ==
  IF FirstSpecIndex(words) < 0 THEN Len(words)
  ELSE SpecCutoff(FirstSpecIndex(words))

\* words.slice(0, n) for n >= 0
SliceWords(words, n) == SubSeq(words, 1, Min2(n, Len(words)))

shortenForListing(name) ==
  LET words == ListingWords(name)
  IN JoinSpace(SliceWords(words, Min2(ListingCutoff(words), 5)))

(***************************************************************************)
(* State                                                                   *)
(***************************************************************************)
VARIABLES
  now,            \* Date.now(), in milliseconds
  ticks,          \* how many times the clock has advanced
  focus,          \* which part of the worker the run exercises
  rateLimitMap,   \* client ip -> the timestamps stored for it, oldest first
  admitted,       \* history: client ip -> how many calls were admitted at each
                  \* time that can still lie in a window
  lastAdmit,      \* history: client ip -> the time of its last admitted call
  lastCheck,      \* the last call of checkRateLimit and what it returned
  plainMap,       \* the Map of a limiter that is given the same calls and
                  \* never runs the cleanup
  searchCache,    \* the Map searchCache: its entries in insertion order
  productCache,   \* the Map productCache: its entries in insertion order
  cachePending,   \* the cache-filling upstream calls in flight
  lastLookup,     \* the last cache lookup and how it was answered
  lastStore,      \* the last cache insertion and what it evicted
  lastReply,      \* the executeSearch call that ended last and what it stored
  sp,             \* the invocation of searchProducts in progress, or the last
  searches,       \* how many invocations of searchProducts have begun
  tool,           \* the invocation of another tool in progress, or the last
  toolCalls,      \* how many invocations of the other tools have begun
  carrierCache,   \* the Map carrierCache: carrier id -> name
  carrierCacheTime, \* carrierCacheTime, on the model's clock
  retellKey,      \* env.RETELL_API_KEY
  inflight,       \* the requests the fetch handler is working on
  answered,       \* the request the fetch handler ended last
  requests,       \* how many requests have arrived
  arg,            \* the input a pure function is applied to
  typed,          \* history: the words arg was put together from
  out             \* the function applied to arg and what it returned

clockVars == <<now, ticks>>

rateVars == <<rateLimitMap, admitted, lastAdmit, lastCheck, plainMap>>

cacheVars ==
  <<searchCache, productCache, cachePending, lastLookup, lastStore, lastReply>>

searchVars == <<sp, searches>>

toolVars == <<tool, toolCalls, carrierCache, carrierCacheTime>>

fetchVars == <<retellKey, inflight, answered, requests>>

pureVars == <<arg, typed, out>>

vars == <<now, ticks, focus, rateLimitMap, admitted, lastAdmit, lastCheck,
          plainMap,
          searchCache, productCache, cachePending, lastLookup, lastStore,
          lastReply,
          sp, searches, tool, toolCalls, carrierCache, carrierCacheTime,
          retellKey, inflight, answered, requests, arg, typed, out>>

\* the number of clock steps of a run of the rate limiter
MaxTicks == 1

\* the number of clock steps of a run of a cache
MaxCacheTicks == 2

\* time passes, at most limit times in a run
Advance(d, limit) ==
  /\ ticks < limit
  /\ now' = now + d
  /\ ticks' = ticks + 1

(***************************************************************************)
(* Rate limiter: checkRateLimit                                            *)
(***************************************************************************)
RATE_LIMIT_REQUESTS == 100

RATE_LIMIT_WINDOW_MS == 60000

\* the clients of the model: one that calls at will and fills its window,
\* and an occasional one, which calls only while the map holds no entry for
\* it (it has not called yet, or the sweep has deleted its entry)
Clients == {"a", "b"}

MayCall(ip) == ip = "a" \/ ip \notin DOMAIN rateLimitMap

\* the steps of the clock in the rate limiter's runs: into the window's last
\* millisecond and onto its end
RateDeltas == {RATE_LIMIT_WINDOW_MS - 1, RATE_LIMIT_WINDOW_MS}

\* a filter that keeps the timestamp on the window's edge
InWindowInclusive(ts, windowStart) == ts >= windowStart

\* timestamps.filter(ts => ts > windowStart)
InWindow(ts, windowStart) == ts > windowStart

\* a limit that admits one call more
UnderLimitInclusive(n) == n <= RATE_LIMIT_REQUESTS

\* timestamps.length < RATE_LIMIT_REQUESTS
UnderLimit(n) == n < RATE_LIMIT_REQUESTS

\* rateLimitMap.get(ip) || []
StoredTimestamps(ip) ==
  IF ip \in DOMAIN rateLimitMap THEN rateLimitMap[ip] ELSE <<>>

\* a store that counts the rejected call as well: the client's newest
\* timestamp is stored once more
StoreTimestampsAlways(map, ip, pushed, allowed) ==
  [k \in DOMAIN map \cup {ip} |->
     IF k = ip
       THEN (IF allowed THEN pushed ELSE Append(pushed, pushed[Len(pushed)]))
       ELSE map[k]]

\* if (allowed) { timestamps.push(now); rateLimitMap.set(ip, timestamps); }
\* with pushed the list after the push
StoreTimestamps(map, ip, pushed, allowed) ==
  IF allowed
    THEN [k \in DOMAIN map \cup {ip} |-> IF k = ip THEN pushed ELSE map[k]]
    ELSE map

\* a cleanup that deletes every client
SweepAll(map, windowStart) == [k \in {} |-> <<>>]

\* the periodic cleanup: the clients whose timestamps are all outside the
\* window are deleted
SweepMap(map, windowStart) ==
  LET keep == {k \in DOMAIN map :
                 ~ \A i \in 1..Len(map[k]) : map[k][i] <= windowStart}
  IN [k \in keep |-> map[k]]

\* the sum of the counts of a bag of timestamps (timestamp -> count)
RECURSIVE BagTotal(_, _)
BagTotal(bag, keys) ==
  IF keys = {} THEN 0
  ELSE LET t == CHOOSE x \in keys : TRUE
       IN bag[t] + BagTotal(bag, keys \ {t})

\* how many of the timestamps ever admitted for ip lie in the window that
\* ends now
AdmittedInWindow(ip) ==
  BagTotal(admitted[ip],
           {t \in DOMAIN admitted[ip] : t > now - RATE_LIMIT_WINDOW_MS})

\* the time since the last timestamp admitted for ip, -1 when there is none
SinceLastAdmitted(ip) ==
  IF lastAdmit[ip] < 0 THEN -1 ELSE now - lastAdmit[ip]

\* the history with one more timestamp admitted for ip
RecordAdmitted(ip) ==
  [admitted EXCEPT ![ip] =
     [t \in DOMAIN @ \cup {now} |->
        IF t \in DOMAIN @ THEN (IF t = now THEN @[t] + 1 ELSE @[t]) ELSE 1]]

NoCheck ==
  [called |-> FALSE, ip |-> "", at |-> 0, allowed |-> FALSE, remaining |-> 0,
   resetMs |-> 0, prior |-> 0, sinceLast |-> 0, dropped |-> 0,
   swept |-> FALSE, before |-> <<>>, afterRejected |-> FALSE,
   plain |-> [allowed |-> FALSE, remaining |-> 0, resetMs |-> 0]]

\* a reset time taken from the newest timestamp of the window
ResetMsNewest(timestamps, t) ==
  IF Len(timestamps) > 0
    THEN Max2(0, timestamps[Len(timestamps)] + RATE_LIMIT_WINDOW_MS - t)
    ELSE 0

\* timestamps.length > 0
\*   ? Math.max(0, timestamps[0] + RATE_LIMIT_WINDOW_MS - now) : 0
ResetMs(timestamps, t) ==
  IF Len(timestamps) > 0
    THEN Max2(0, timestamps[1] + RATE_LIMIT_WINDOW_MS - t)
    ELSE 0

\* the Retry-After header of the 429 reply: Math.ceil(resetMs / 1000)
RetryAfter(resetMs) == (resetMs + 999) \div 1000

\* checkRateLimit(ip) at time t on the Map map when Math.random() never
\* starts the cleanup: what the call returns and the Map it leaves
PlainLimit(map, ip, t) ==
  LET windowStart == t - RATE_LIMIT_WINDOW_MS
      stored == IF ip \in DOMAIN map THEN map[ip] ELSE <<>>
      timestamps == SelectSeq(stored, LAMBDA ts : InWindow(ts, windowStart))
      allowed == UnderLimit(Len(timestamps))
      pushed == IF allowed THEN Append(timestamps, t) ELSE timestamps
  IN [allowed |-> allowed,
      remaining |-> Max2(0, RATE_LIMIT_REQUESTS - Len(pushed)),
      resetMs |-> ResetMs(pushed, t),
      map |-> StoreTimestamps(map, ip, pushed, allowed)]

\* checkRateLimit(ip); sweep is the outcome of Math.random() < 0.01
checkRateLimit(ip, sweep) ==
  LET windowStart == now - RATE_LIMIT_WINDOW_MS
  IN \E timestamps \in {SelectSeq(StoredTimestamps(ip),
                                   LAMBDA ts : InWindow(ts, windowStart))} :
     \E allowed \in {UnderLimit(Len(timestamps))} :
     \E pushed \in {IF allowed THEN Append(timestamps, now) ELSE timestamps} :
     \E plain \in {PlainLimit(plainMap, ip, now)} :
       LET map1 == StoreTimestamps(rateLimitMap, ip, pushed, allowed)
           resetMs == ResetMs(pushed, now)
           map2 == IF sweep THEN SweepMap(map1, windowStart) ELSE map1
       IN /\ rateLimitMap' = map2
          /\ admitted' = IF allowed THEN RecordAdmitted(ip) ELSE admitted
          /\ lastAdmit' = IF allowed THEN [lastAdmit EXCEPT ![ip] = now]
                                     ELSE lastAdmit
          /\ lastCheck' =
               [called |-> TRUE, ip |-> ip, at |-> now, allowed |-> allowed,
                remaining |-> Max2(0, RATE_LIMIT_REQUESTS - Len(pushed)),
                resetMs |-> resetMs,
                prior |-> AdmittedInWindow(ip),
                sinceLast |-> SinceLastAdmitted(ip),
                dropped |-> Len(StoredTimestamps(ip)) - Len(timestamps),
                swept |-> DOMAIN rateLimitMap' # DOMAIN map1,
                before |-> StoredTimestamps(ip),
                afterRejected |-> /\ lastCheck.called
                                  /\ lastCheck.ip = ip
                                  /\ ~lastCheck.allowed,
                plain |-> [allowed |-> plain.allowed,
                           remaining |-> plain.remaining,
                           resetMs |-> plain.resetMs]]
          /\ plainMap' = plain.map

\* a client calls the rate limiter
CheckRateLimit ==
  \E ip \in Clients, sweep \in BOOLEAN :
     /\ MayCall(ip)
     /\ checkRateLimit(ip, sweep)
     /\ UNCHANGED <<clockVars, focus, pureVars, cacheVars, searchVars, toolVars, fetchVars>>

\* the history without the timestamps that no window from time t on can hold
ForgetBefore(t) ==
  [ip \in Clients |->
     [u \in {x \in DOMAIN admitted[ip] : x > t - RATE_LIMIT_WINDOW_MS} |->
        admitted[ip][u]]]

RateTick ==
  \E d \in RateDeltas :
     /\ Advance(d, MaxTicks)
     /\ admitted' = ForgetBefore(now + d)
     /\ UNCHANGED <<rateLimitMap, lastAdmit, lastCheck, plainMap, focus, pureVars, cacheVars, searchVars,
                   toolVars, fetchVars>>

(***************************************************************************)
(* Search cache and product cache: executeSearch, getProductInfo           *)
(***************************************************************************)
SEARCH_CACHE_TTL == 30000

SEARCH_CACHE_MAX == 50

PRODUCT_CACHE_TTL == 300000

PRODUCT_CACHE_MAX == 100

\* A Map is the sequence of its entries in insertion order, each with its
\* key. Map.prototype.get: the place of the key's entry, 0 when it has none
MapIndex(map, key) ==
  IF \E i \in 1..Len(map) : map[i].key = key
    THEN CHOOSE i \in 1..Len(map) : map[i].key = key
    ELSE 0

\* Map.prototype.set: a key the map holds keeps its place and gets the new
\* value; a new key goes to the end
MapSet(map, entry) ==
  IF MapIndex(map, entry.key) = 0
    THEN Append(map, entry)
    ELSE [map EXCEPT ![MapIndex(map, entry.key)] = entry]

\* map.delete(map.keys().next().value), when the map has a first key
MapDeleteFirst(map) == IF Len(map) = 0 THEN map ELSE Tail(map)

\* a freshness test that still serves an entry whose TTL has just elapsed
SearchCacheFreshInclusive(entry, t) == (t - entry.time) <= SEARCH_CACHE_TTL

\* (now - cached.time) < SEARCH_CACHE_TTL
SearchCacheFresh(entry, t) == (t - entry.time) < SEARCH_CACHE_TTL

\* an insertion that never evicts
SearchCacheStoreNoEvict(cache, entry) == MapSet(cache, entry)

\* executeSearch's insertion: the first key is deleted when the cache is
\* full, then the entry is set
SearchCacheStore(cache, entry) ==
  MapSet(IF Len(cache) >= SEARCH_CACHE_MAX THEN MapDeleteFirst(cache) ELSE cache,
         entry)

\* (now - cached.time) < PRODUCT_CACHE_TTL
ProductCacheFresh(entry, t) == (t - entry.time) < PRODUCT_CACHE_TTL

\* getProductInfo's insertion
ProductCacheStore(cache, entry) ==
  MapSet(IF Len(cache) >= PRODUCT_CACHE_MAX THEN MapDeleteFirst(cache) ELSE cache,
         entry)

\* the concurrent cache-filling calls of a run
MaxPending == 2

\* how many keys beyond a cache's capacity its callers ask for
MaxOverflow == 2

DigitSeq == <<"0","1","2","3","4","5","6","7","8","9">>

\* String(n) for n >= 0
RECURSIVE Decimal(_)
Decimal(n) ==
  IF n < 10 THEN <<DigitSeq[n + 1]>>
  ELSE Append(Decimal(n \div 10), DigitSeq[(n % 10) + 1])

\* the i-th query of the cache's callers: distinct queries, each with filter
\* operators and an upper-case letter
CacheQuery(i) == <<"[", "Q">> \o Decimal(i) \o <<"]">>

CacheQueries ==
  [i \in 1..(SEARCH_CACHE_MAX + MaxOverflow + 1) |-> CacheQuery(i)]

\* the least cachedAt among the entries of a cache, -1 when it is empty
OldestTime(cache) ==
  IF Len(cache) = 0 THEN -1
  ELSE cache[CHOOSE i \in 1..Len(cache) :
               \A j \in 1..Len(cache) : cache[i].time <= cache[j].time].time

NoLookup ==
  [looked |-> FALSE, cache |-> "", present |-> FALSE, age |-> 0,
   sinceSet |-> 0, served |-> FALSE, issued |-> FALSE, afterFailure |-> FALSE]

NoReply ==
  [ended |-> FALSE, key |-> <<>>, ok |-> FALSE, products |-> 0,
   changed |-> FALSE, held |-> FALSE]

NoStore ==
  [stored |-> FALSE, cache |-> "", sizeBefore |-> 0, evicted |-> FALSE,
   evictedTime |-> 0, oldestTime |-> 0]

\* what a lookup of key in cache at the present time found: whether the cache
\* holds the key, the time since the entry's cachedAt (its time field), the
\* time since the entry was set, whether the entry was served, and whether
\* the call went on to the shop
LookupRecord(name, cache, key, hit, pending) ==
  [looked |-> TRUE, cache |-> name,
   present |-> MapIndex(cache, key) > 0,
   age |-> IF MapIndex(cache, key) > 0
             THEN now - cache[MapIndex(cache, key)].time ELSE 0,
   sinceSet |-> IF MapIndex(cache, key) > 0
                  THEN now - cache[MapIndex(cache, key)].setAt ELSE 0,
   served |-> hit, issued |-> Len(pending) > Len(cachePending),
   afterFailure |-> /\ name = "search"
                    /\ lastReply.ended
                    /\ ~lastReply.ok
                    /\ lastReply.key = key]

\* what the end of an executeSearch call did to the search cache, which
\* becomes after: whether the cache changed, and whether it now holds the
\* reply's ids under the call's key
ReplyRecord(call, reply, after) ==
  [ended |-> TRUE, key |-> call.key, ok |-> reply.ok,
   products |-> Len(reply.ids),
   changed |-> after # searchCache,
   held |-> /\ MapIndex(after, call.key) > 0
            /\ after[MapIndex(after, call.key)].ids = reply.ids
            /\ after[MapIndex(after, call.key)].setAt = now]

\* what an insertion did to cache, which becomes after: whether the first
\* entry was deleted, its cachedAt and the least cachedAt of the cache
StoreRecord(name, cache, after) ==
  LET evicted == Len(cache) > 0 /\ (Len(after) = 0 \/ after[1].key # cache[1].key)
  IN [stored |-> TRUE, cache |-> name, sizeBefore |-> Len(cache),
      evicted |-> evicted,
      evictedTime |-> IF evicted THEN cache[1].time ELSE 0,
      oldestTime |-> IF evicted THEN OldestTime(cache) ELSE 0]

\* executeSearch(query) up to its await: an empty sanitized query and a
\* fresh cache entry return at once, anything else calls prestashopFetch
ExecuteSearchBegin(query) ==
  LET sanitized == sanitizeSearchQuery(query)
      cacheKey == ToLower(sanitized)
      i == MapIndex(searchCache, cacheKey)
      hit == i > 0 /\ SearchCacheFresh(searchCache[i], now)
  IN /\ Len(cachePending) < MaxPending
     /\ IF Len(sanitized) = 0
          THEN UNCHANGED <<lastLookup, cachePending>>
          ELSE /\ cachePending' =
                    IF hit THEN cachePending
                    ELSE Append(cachePending,
                                [cache |-> "search", key |-> cacheKey, time |-> now])
               /\ lastLookup' = LookupRecord("search", searchCache, cacheKey, hit,
                                             cachePending')
     /\ UNCHANGED <<searchCache, productCache, lastStore, lastReply>>

\* the pending calls without the k-th
DropPending(k) ==
  SubSeq(cachePending, 1, k - 1) \o SubSeq(cachePending, k + 1, Len(cachePending))

\* a store that also caches what a failed call returns
StoredAlways(reply) == TRUE

\* searchCache.set follows the await of prestashopFetch inside the try: it
\* is reached when the call returned and skipped when it threw
StoredReply(reply) == reply.ok

\* executeSearch after its await: the ids of a reply are cached under the
\* time read before the call; a failed call caches nothing
ExecuteSearchEnd(k, reply) ==
  /\ k \in 1..Len(cachePending)
  /\ cachePending[k].cache = "search"
  /\ cachePending' = DropPending(k)
  /\ IF StoredReply(reply)
       THEN /\ searchCache' =
                 SearchCacheStore(searchCache,
                                  [key |-> cachePending[k].key, ids |-> reply.ids,
                                   time |-> cachePending[k].time, setAt |-> now])
            /\ lastStore' = StoreRecord("search", searchCache, searchCache')
       ELSE UNCHANGED <<searchCache, lastStore>>
  /\ lastReply' = ReplyRecord(cachePending[k], reply, searchCache')
  /\ UNCHANGED <<productCache, lastLookup>>

\* getProductInfo(productId) up to its await
GetProductInfoBegin(productId) ==
  LET i == MapIndex(productCache, productId)
      hit == i > 0 /\ ProductCacheFresh(productCache[i], now)
  IN /\ Len(cachePending) < MaxPending
     /\ cachePending' =
          IF hit THEN cachePending
          ELSE Append(cachePending,
                      [cache |-> "product", key |-> productId, time |-> now])
     /\ lastLookup' = LookupRecord("product", productCache, productId, hit,
                                   cachePending')
     /\ UNCHANGED <<searchCache, productCache, lastStore, lastReply>>

\* getProductInfo after its await: a reply that holds the product is cached,
\* a reply without it and a failed call cache nothing
GetProductInfoEnd(k, reply) ==
  /\ k \in 1..Len(cachePending)
  /\ cachePending[k].cache = "product"
  /\ cachePending' = DropPending(k)
  /\ IF reply.ok /\ reply.found
       THEN /\ productCache' =
                 ProductCacheStore(productCache,
                                   [key |-> cachePending[k].key,
                                    product |-> reply.product,
                                    time |-> cachePending[k].time, setAt |-> now])
            /\ lastStore' = StoreRecord("product", productCache, productCache')
       ELSE UNCHANGED <<productCache, lastStore>>
  /\ UNCHANGED <<searchCache, lastLookup, lastReply>>

\* the keys under which the queries of the cache's callers are cached
CacheKeys ==
  [i \in DOMAIN CacheQueries |-> ToLower(sanitizeSearchQuery(CacheQueries[i]))]

\* the number of the query cached under a key
QueryNumber(key) == CHOOSE i \in DOMAIN CacheKeys : CacheKeys[i] = key

\* the numbers of the keys a cache holds or a pending call will store
HeldNumbers(cache, name) ==
  IF name = "search"
    THEN {QueryNumber(cache[j].key) : j \in 1..Len(cache)}
           \cup {QueryNumber(cachePending[k].key) : k \in 1..Len(cachePending)}
    ELSE {cache[j].key : j \in 1..Len(cache)}
           \cup {cachePending[k].key : k \in 1..Len(cachePending)}

\* the number of the next key the cache has not seen: keys are
\* interchangeable, so new keys come in the order of their numbers
NextNew(held) ==
  IF held = {} THEN 1 ELSE 1 + CHOOSE n \in held : \A o \in held : o <= n

\* the size up to which a cache counts as nearly empty
MaxWarm == 2

\* Keys are asked for again while the cache is nearly empty; afterwards the
\* cache fills with new keys.
Warm(cache) == Len(cache) <= MaxWarm

\* Time passes while the cache is nearly empty or full.
Eventful(cache, max) == Warm(cache) \/ Len(cache) >= max

\* Calls overlap when the cache is full or one entry short of it; otherwise
\* a call begins when no other is pending.
MayOverlap(cache, max) == cachePending = <<>> \/ Len(cache) >= max - 1

\* The callers of a cache ask for a key it has not seen, or again for the key
\* of the cache's first or last entry: the numbers of the keys they may ask
\* for, when new is the number of the next key the cache has not seen
AskNumbers(cache, name, new, max) ==
  IF ~MayOverlap(cache, max) THEN {}
  ELSE {i \in {new} : i <= max + MaxOverflow}
         \cup (IF Warm(cache) /\ Len(cache) > 0
                 THEN IF name = "search"
                        THEN {QueryNumber(cache[1].key),
                              QueryNumber(cache[Len(cache)].key)}
                        ELSE {cache[1].key, cache[Len(cache)].key}
                 ELSE {})

\* the replies of the search endpoint to a cache-filling call: a failure and
\* a list of products, which is empty only for the first key of a run
CacheSearchReplies(key) ==
  {[ok |-> FALSE, ids |-> <<>>], [ok |-> TRUE, ids |-> <<1, 2>>]}
    \cup (IF key = CacheKeys[1] THEN {[ok |-> TRUE, ids |-> <<>>]} ELSE {})

\* the replies of the product endpoint to a cache-filling call
CacheProductReplies(productId) ==
  {[ok |-> FALSE, found |-> FALSE, product |-> 0],
   [ok |-> TRUE, found |-> FALSE, product |-> 0],
   [ok |-> TRUE, found |-> TRUE, product |-> productId]}

SearchLookup ==
  /\ focus = "search"
  /\ \E new \in {NextNew(HeldNumbers(searchCache, "search"))} :
       \E i \in AskNumbers(searchCache, "search", new, SEARCH_CACHE_MAX) :
          ExecuteSearchBegin(CacheQueries[i])
  /\ UNCHANGED <<clockVars, focus, pureVars, rateVars, searchVars, toolVars, fetchVars>>

SearchReply ==
  /\ focus = "search"
  /\ \E k \in 1..Len(cachePending) :
        \E reply \in CacheSearchReplies(cachePending[k].key) :
           ExecuteSearchEnd(k, reply)
  /\ UNCHANGED <<clockVars, focus, pureVars, rateVars, searchVars, toolVars, fetchVars>>

ProductLookup ==
  /\ focus = "product"
  /\ \E new \in {NextNew(HeldNumbers(productCache, "product"))} :
       \E i \in AskNumbers(productCache, "product", new, PRODUCT_CACHE_MAX) :
          GetProductInfoBegin(i)
  /\ UNCHANGED <<clockVars, focus, pureVars, rateVars, searchVars, toolVars, fetchVars>>

ProductReply ==
  /\ focus = "product"
  /\ \E k \in 1..Len(cachePending) :
        \E reply \in CacheProductReplies(cachePending[k].key) :
           GetProductInfoEnd(k, reply)
  /\ UNCHANGED <<clockVars, focus, pureVars, rateVars, searchVars, toolVars, fetchVars>>

\* the steps of the clock in the caches' runs: a millisecond, as long as a
\* call to the shop may take, one less than the TTL and one more
CacheDeltas ==
  IF focus = "search"
    THEN {1, SEARCH_CACHE_TTL - 1, SEARCH_CACHE_TTL + 1}
    ELSE {1, PRODUCT_CACHE_TTL - 1, PRODUCT_CACHE_TTL + 1}

CacheTick ==
  /\ IF focus = "search"
       THEN Eventful(searchCache, SEARCH_CACHE_MAX)
       ELSE Eventful(productCache, PRODUCT_CACHE_MAX)
  /\ \E d \in CacheDeltas : Advance(d, MaxCacheTicks)
  /\ UNCHANGED <<focus, pureVars, rateVars, cacheVars, searchVars, toolVars, fetchVars>>

(***************************************************************************)
(* Product search: searchProducts                                          *)
(***************************************************************************)
VOICE_SEARCH_DEFAULT == 5

VOICE_SEARCH_MAX == 10

\* The shop's products. A name field is a string, or the multilingual array
\* of values by language id, or is missing.
Catalog ==
  <<[id |-> 1, name |-> [kind |-> "string", value |->
      <<"P","a","l","i","t"," ","R","T","X"," ","5","0","7","0"," ","1","6",
        "G","B"," ","G","a","m","i","n","g","P","r","o">>]],
    [id |-> 2, name |-> [kind |-> "string", value |->
      <<"U","S","B","-","C"," ","c","a","b","l","e"," ","c","o","m","p","a",
        "t","i","b","l","e"," ","w","i","t","h"," ","R","T","X"," ","l","a",
        "p","t","o","p","s">>]],
    [id |-> 3, name |-> [kind |-> "string", value |->
      <<"A","l","u","m","i","n","i","u","m"," ","n","o","t","e","b","o","o",
        "k"," ","c","o","o","l","i","n","g"," ","s","t","a","n","d"," ","w",
        "i","t","h"," ","t","w","o"," ","q","u","i","e","t"," ","f","a","n",
        "s"," ","f","o","r"," ","R","T","X"," ","l","a","p","t","o","p","s">>]],
    [id |-> 4, name |-> [kind |-> "string", value |->
      <<"A","d","j","u","s","t","a","b","l","e"," ","v","e","r","t","i","c",
        "a","l"," ","m","o","u","n","t"," ","b","r","a","c","k","e","t"," ",
        "f","o","r"," ","a"," ","d","e","s","k","t","o","p"," ","R","T","X",
        " ","c","a","r","d">>]],
    [id |-> 5, name |-> [kind |-> "string", value |->
      <<"A","s","u","s"," ","R","O","G"," ","S","t","r","i","x"," ","G","1",
        "6"," ","l","a","p","t","o","p">>]],
    [id |-> 6, name |-> [kind |-> "string", value |->
      <<"L","o","g","i","t","e","c","h"," ","M","X"," ","K","e","y","s"," ",
        "k","e","y","b","o","a","r","d">>]],
    [id |-> 7, name |-> [kind |-> "string", value |->
      <<"K","i","n","g","s","t","o","n"," ","F","u","r","y"," ","1","6","G",
        "B"," ","D","D","R","5">>]],
    [id |-> 8, name |->
      [kind |-> "array", items |->
        <<[id |-> 2, value |-> <<"C","a","r","t","e"," ","M","S","I"," ","R","T","X"," ","5","0",
            "8","0">>],
          [id |-> 1, value |-> <<"M","S","I"," ","V","e","n","t","u","s"," ","5","0","8","0">>]>>]],
    [id |-> 9, name |-> [kind |-> "missing"]],
    [id |-> 10, name |-> [kind |-> "string", value |->
      <<"A","S","U","S"," ","T","U","F"," ","R","T","X"," ","5","0","9","0">>]]>>

Unknown == <<"U","n","k","n","o","w","n">>

\* extractProductName: the value of language 1 of an array, else its first
\* value, else 'Unknown'; a string itself, 'Unknown' when it is empty or missing
extractProductName(nameField) ==
  IF nameField.kind = "array"
    THEN LET ones == SelectSeq(nameField.items, LAMBDA n : n.id = 1)
         IN IF Len(ones) > 0 /\ Len(ones[1].value) > 0 THEN ones[1].value
            ELSE IF Len(nameField.items) > 0 /\ Len(nameField.items[1].value) > 0
                   THEN nameField.items[1].value
                   ELSE Unknown
    ELSE IF nameField.kind = "string" /\ Len(nameField.value) > 0
           THEN nameField.value
           ELSE Unknown

\* the length of the part of a name in which a brand counts
PrimaryLength == 50

\* a brand test that looks at the whole name
BrandIsPrimaryAnywhere(p, brandTerms) ==
  \E i \in 1..Len(brandTerms) :
     Includes(ToLower(extractProductName(p.name)), brandTerms[i])

\* the brand filter of searchProducts: some brand term of the query occurs
\* in the first 50 characters of the product's lower-cased name
BrandIsPrimary(p, brandTerms) ==
  LET productName == ToLower(extractProductName(p.name))
      primaryPart == Slice(productName, 1, Min2(PrimaryLength, Len(productName)))
  IN \E i \in 1..Len(brandTerms) : Includes(primaryPart, brandTerms[i])

\* Array.prototype.slice(0, n): the first n elements, all but the last -n
\* when n is negative
SliceTo(xs, n) ==
  IF n >= 0 THEN SubSeq(xs, 1, Min2(n, Len(xs)))
  ELSE SubSeq(xs, 1, Max2(0, Len(xs) + n))

\* Math.min(args.limit || VOICE_SEARCH_DEFAULT, VOICE_SEARCH_MAX); an absent
\* limit is 0 here
SearchLimit(limitArg) ==
  Min2(IF limitArg = 0 THEN VOICE_SEARCH_DEFAULT ELSE limitArg, VOICE_SEARCH_MAX)

\* productScores is a Map from product id to score: its entries in insertion
\* order. productScores.get(id) || 0
ScoreOf(scores, id) ==
  IF MapIndex(scores, id) = 0 THEN 0 ELSE scores[MapIndex(scores, id)].score

\* how often id occurs in ids
Occurrences(ids, id) == Cardinality({i \in 1..Len(ids) : ids[i] = id})

\* the ids of a list that productScores does not hold yet, each once, in the
\* order in which the list has them first
NewIds(scores, ids) ==
  LET firsts == SelectSeq([i \in 1..Len(ids) |-> i],
                          LAMBDA i : /\ MapIndex(scores, ids[i]) = 0
                                     /\ \A j \in 1..(i - 1) : ids[j] # ids[i])
  IN [k \in 1..Len(firsts) |-> ids[firsts[k]]]

\* for (const id of firstResult) productScores.set(id, 1): an id of the list
\* gets score 1, at its place in the Map when it has one and else at the end
ScoreFirst(scores, ids) ==
  [k \in 1..Len(scores) |->
     IF Occurrences(ids, scores[k].key) > 0
       THEN [key |-> scores[k].key, score |-> 1] ELSE scores[k]]
  \o [k \in 1..Len(NewIds(scores, ids)) |->
        [key |-> NewIds(scores, ids)[k], score |-> 1]]

\* for (const id of ids) productScores.set(id, (productScores.get(id) || 0) + 1):
\* every occurrence of an id in the list adds one to its score
ScoreList(scores, ids) ==
  [k \in 1..Len(scores) |->
     [key |-> scores[k].key,
      score |-> scores[k].score + Occurrences(ids, scores[k].key)]]
  \o [k \in 1..Len(NewIds(scores, ids)) |->
        [key |-> NewIds(scores, ids)[k],
         score |-> Occurrences(ids, NewIds(scores, ids)[k])]]

\* for (const ids of results) ..., over the results of a batch in the order
\* of its variations, whatever the order in which they arrived
ScoreBatch(scores, slots) ==
  IF Len(slots) = 0 THEN scores
  ELSE IF Len(slots) = 1 THEN ScoreList(scores, slots[1].ids)
  ELSE IF Len(slots) = 2 THEN ScoreList(scores, slots[1].ids \o slots[2].ids)
  ELSE ScoreList(scores, slots[1].ids \o slots[2].ids \o slots[3].ids)

\* the entries left in the order in which the Map has them
Unsorted(scores) == scores

\* the place of entry i after [...productScores.entries()].sort((a, b) =>
\* b[1] - a[1]): a stable sort, highest score first
Place(scores, i) ==
  1 + Cardinality({j \in 1..Len(scores) :
                     \/ scores[j].score > scores[i].score
                     \/ scores[j].score = scores[i].score /\ j < i})

SortByScore(scores) ==
  [r \in 1..Len(scores) |->
     scores[CHOOSE i \in 1..Len(scores) : Place(scores, i) = r]]

NoResult == [success |-> FALSE, kind |-> "none", count |-> 0, products |-> <<>>]

Failure(kind) == [success |-> FALSE, kind |-> kind, count |-> 0, products |-> <<>>]

NoSearch ==
  [pc |-> "idle", query |-> <<>>, limitArg |-> 0, limit |-> 0, rawQuery |-> <<>>,
   terms |-> <<>>, variations |-> <<>>, brandTerms |-> <<>>, scores |-> <<>>,
   slots |-> <<>>, calls |-> 0, hits |-> 0, searched |-> <<>>,
   sortedIds |-> <<>>, candidates |-> <<>>, result |-> NoResult,
   direct |-> "none", failed |-> FALSE, detail |-> "none", asShop |-> TRUE,
   results |-> <<>>]

Finish(s, result) == [s EXCEPT !.pc = "done", !.slots = <<>>, !.result = result]

\* The fields direct, failed, detail and asShop of a search are history:
\* how the direct lookup ended, whether a variation search failed, how the
\* detail fetch ended, and whether the shop has answered every call of the
\* run so far, those of the searches before included, as ShopSearch and
\* ShopDetails do. The field results is history as well: the id lists that
\* the variation searches returned, each with the index of its variation, in
\* the order in which searchProducts scored them.

\* executeSearch(variations[idx]) up to its await, against the cache as it
\* is: nothing to do for a query that sanitizes to nothing, the cached ids of
\* a fresh entry, or a call to the shop that is now pending
SearchSlot(s, idx, cache, t) ==
  LET sanitized == sanitizeSearchQuery(s.variations[idx + 1])
      cacheKey == ToLower(sanitized)
      i == MapIndex(cache, cacheKey)
  IN IF Len(sanitized) = 0
       THEN [idx |-> idx, key |-> cacheKey, time |-> t, state |-> "empty",
             ids |-> <<>>]
     ELSE IF i > 0 /\ SearchCacheFresh(cache[i], t)
       THEN [idx |-> idx, key |-> cacheKey, time |-> t, state |-> "cached",
             ids |-> cache[i].ids]
     ELSE [idx |-> idx, key |-> cacheKey, time |-> t, state |-> "pending",
           ids |-> <<>>]

CountState(slots, state) ==
  Cardinality({j \in 1..Len(slots) : slots[j].state = state})

\* the searches of the variations idxs begin, one after the other with no
\* await between them
Launch(s, idxs, phase, cache, t) ==
  LET slots == [j \in 1..Len(idxs) |-> SearchSlot(s, idxs[j], cache, t)]
  IN [s EXCEPT !.pc = phase,
               !.slots = slots,
               !.calls = @ + CountState(slots, "pending"),
               !.hits = @ + CountState(slots, "cached"),
               !.searched = @ \o idxs]

Waiting(s) == CountState(s.slots, "pending") > 0

\* a threshold of 5 whatever the query
NeedMoreResultsFive(s) == Len(s.scores) < 5

\* the threshold under which the first variation's candidates are too few
NeedMoreResults(s) ==
  Len(s.scores) < (IF Len(s.brandTerms) > 0 THEN 10 ELSE 5)

\* the query is normalized; the search of the first variation begins
StepText(s, normalized, cache, t) ==
  IF s.pc # "text" THEN s
  ELSE IF Len(normalized.variations) = 0
    THEN Finish([s EXCEPT !.terms = normalized.terms], Failure("askName"))
  ELSE Launch([s EXCEPT !.terms = normalized.terms,
                        !.variations = normalized.variations,
                        !.brandTerms =
                           SelectSeq(normalized.terms,
                                     LAMBDA w : w \in TECH_BRANDS)],
              <<0>>, "first", cache, t)

\* the id lists of the slots, each with the index of its variation
SlotResults(slots) ==
  [j \in 1..Len(slots) |-> [idx |-> slots[j].idx, ids |-> slots[j].ids]]

\* the ids of the first variation get score 1
StepFirst(s) ==
  IF s.pc # "first" \/ Waiting(s) THEN s
  ELSE [s EXCEPT !.pc = "afterFirst", !.slots = <<>>,
                 !.scores = ScoreFirst(@, s.slots[1].ids),
                 !.results = @ \o SlotResults(s.slots)]

\* variations.slice(1, 4), as indices
AdditionalBatch(variations) ==
  [j \in 1..(Min2(4, Len(variations)) - 1) |-> j]

\* a fallback batch of every variation from the fifth on
FallbackBatchRest(variations) ==
  [j \in 1..(Len(variations) - 4) |-> j + 3]

\* variations.slice(4, 7), as indices
FallbackBatch(variations) ==
  [j \in 1..(Min2(7, Len(variations)) - 4) |-> j + 3]

\* a fallback that is tried whenever the candidates are too few
NeedFallbackFew(s) == NeedMoreResults(s) /\ Len(s.variations) > 4

\* productScores.size === 0 && variations.length > 4
NeedFallback(s) == Len(s.scores) = 0 /\ Len(s.variations) > 4

\* a search that never tries the additional variations
StepAfterFirstNone(s, cache, t) ==
  IF s.pc # "afterFirst" THEN s ELSE [s EXCEPT !.pc = "afterAdditional"]

\* variations 1 to 3 are searched when the candidates are too few
StepAfterFirst(s, cache, t) ==
  IF s.pc # "afterFirst" THEN s
  ELSE IF NeedMoreResults(s) /\ Len(s.variations) > 1
    THEN Launch(s, AdditionalBatch(s.variations), "additional", cache, t)
  ELSE [s EXCEPT !.pc = "afterAdditional"]

\* the ids of a batch are scored when all of its searches are back
StepBatch(s, phase, next) ==
  IF s.pc # phase \/ Waiting(s) THEN s
  ELSE [s EXCEPT !.pc = next, !.slots = <<>>, !.scores = ScoreBatch(@, s.slots),
                 !.results = @ \o SlotResults(s.slots)]

\* a fallback batch of four variations
StepAfterAdditionalWide(s, cache, t) ==
  IF s.pc # "afterAdditional" THEN s
  ELSE IF Len(s.scores) = 0 /\ Len(s.variations) > 4
    THEN Launch(s, [j \in 1..(Min2(8, Len(s.variations)) - 4) |-> j + 3],
                "fallback", cache, t)
  ELSE [s EXCEPT !.pc = "afterFallback"]

\* variations 4 to 6 are searched when there is no candidate yet
StepAfterAdditional(s, cache, t) ==
  IF s.pc # "afterAdditional" THEN s
  ELSE IF NeedFallback(s)
    THEN Launch(s, FallbackBatch(s.variations), "fallback", cache, t)
  ELSE [s EXCEPT !.pc = "afterFallback"]

\* the best candidates are ranked, their detail fetch begins
Rank(s) ==
  LET fetchLimit == IF Len(s.brandTerms) > 0 THEN Max2(s.limit * 3, 15) ELSE s.limit
      sorted == SliceTo(SortByScore(s.scores), fetchLimit)
  IN [s EXCEPT !.pc = "detail",
               !.sortedIds = [i \in 1..Len(sorted) |-> sorted[i].key],
               !.calls = @ + 1,
               !.detail = "pending"]

\* no candidate at all ends the search
StepAfterFallback(s) ==
  IF s.pc # "afterFallback" THEN s
  ELSE IF Len(s.scores) = 0 THEN Finish(s, Failure("notFound"))
  ELSE Rank(s)

\* searchProducts goes on from the first variation's search, statement by
\* statement, until it awaits the shop or returns; a statement whose turn
\* has not come leaves the search as it is
ResumeSearches(s1, cache, t) ==
  \E s2 \in {StepFirst(s1)} :
  \E s3 \in {StepAfterFirst(s2, cache, t)} :
  \E s4 \in {StepBatch(s3, "additional", "afterAdditional")} :
  \E s5 \in {StepAfterAdditional(s4, cache, t)} :
  \E s6 \in {StepBatch(s5, "fallback", "afterFallback")} :
     sp' = StepAfterFallback(s6)

NotNormalized == [original |-> <<>>, terms |-> <<>>, variations |-> <<>>]

\* searchProducts goes on from the normalization of the query
ResumeText(s0, cache, t) ==
  \E normalized \in {IF s0.pc = "text" THEN normalizeSearchQuery(s0.rawQuery)
                     ELSE NotNormalized} :
  \E s1 \in {StepText(s0, normalized, cache, t)} :
     ResumeSearches(s1, cache, t)

\* searchProducts(env, args) up to the direct lookup or the normalization
SearchProductsBegin(args) ==
  LET rawQuery == Trim(args.query)
      s == [NoSearch EXCEPT !.query = args.query, !.limitArg = args.limit,
                            !.limit = SearchLimit(args.limit),
                            !.rawQuery = rawQuery]
  IN IF Len(rawQuery) = 0 THEN Finish(s, Failure("askProduct"))
     ELSE IF IsNumeric(rawQuery)
       THEN [s EXCEPT !.pc = "direct", !.calls = 1, !.direct = "pending"]
     ELSE [s EXCEPT !.pc = "text"]

\* a direct lookup whose failure ends the search
SearchProductsDirectStrict(s, reply) ==
  IF reply.ok /\ reply.found
    THEN Finish([s EXCEPT !.direct = "found"],
                [success |-> TRUE, kind |-> "direct", count |-> 1,
                 products |-> <<[id |-> reply.product.id,
                                 fullName |-> extractProductName(reply.product.name),
                                 listed |-> FALSE]>>])
    ELSE Finish([s EXCEPT !.direct = IF reply.ok THEN "missing" ELSE "failed"],
                Failure("notFound"))

\* the direct lookup of a numeric query is answered: a product ends the
\* search, no product and a failed call go on to the text search
SearchProductsDirect(s, reply) ==
  IF reply.ok /\ reply.found
    THEN Finish([s EXCEPT !.direct = "found"],
                [success |-> TRUE, kind |-> "direct", count |-> 1,
                 products |-> <<[id |-> reply.product.id,
                                 fullName |-> extractProductName(reply.product.name),
                                 listed |-> FALSE]>>])
    ELSE [s EXCEPT !.pc = "text",
                   !.direct = IF reply.ok THEN "missing" ELSE "failed"]

\* a search that gives up when one of its variation searches fails
SearchProductsAnswerAborting(s, j, reply) ==
  IF reply.ok
    THEN [s EXCEPT !.slots[j].state = "done", !.slots[j].ids = reply.ids]
    ELSE Finish([s EXCEPT !.failed = TRUE], Failure("unable"))

\* the search of slot j is answered
SearchProductsAnswer(s, j, reply) ==
  [s EXCEPT !.slots[j].state = "done",
            !.slots[j].ids = IF reply.ok THEN reply.ids ELSE <<>>,
            !.failed = @ \/ ~reply.ok]

\* sortedIds.map(id => productMap.get(id)).filter(Boolean): new Map(pairs)
\* keeps the last product of an id
OrderedProducts(sortedIds, products) ==
  LET found == SelectSeq(sortedIds,
                         LAMBDA id : \E i \in 1..Len(products) : products[i].id = id)
  IN [k \in 1..Len(found) |->
        products[CHOOSE i \in 1..Len(products) :
                   /\ products[i].id = found[k]
                   /\ \A j \in (i + 1)..Len(products) : products[j].id # found[k]]]

\* the detail fetch is answered
SearchProductsDetail(s, reply) ==
  IF ~reply.ok THEN Finish([s EXCEPT !.detail = "failed"], Failure("unable"))
  ELSE IF Len(reply.products) = 0
    THEN Finish([s EXCEPT !.detail = "empty"], Failure("noDetails"))
  ELSE
    LET ordered == OrderedProducts(s.sortedIds, reply.products)
        hasBrandTerms == Len(s.brandTerms) > 0
        filtered == SelectSeq(ordered, LAMBDA p : BrandIsPrimary(p, s.brandTerms))
        chosen == IF hasBrandTerms THEN SliceTo(filtered, s.limit) ELSE ordered
        fetched == [s EXCEPT !.detail = "ok", !.candidates =
                                [k \in 1..Len(ordered) |->
                                   [id |-> ordered[k].id,
                                    fullName |-> extractProductName(ordered[k].name)]]]
    IN IF hasBrandTerms /\ Len(filtered) = 0
         THEN Finish(fetched, Failure("noBrand"))
         ELSE Finish(fetched, [success |-> TRUE, kind |-> "found",
                               count |-> Len(chosen),
                               products |->
                                 [k \in 1..Len(chosen) |->
                                    [id |-> chosen[k].id,
                                     fullName |->
                                       extractProductName(chosen[k].name),
                                     listed |-> Len(chosen) > 1]]])

\* the searches of a run
MaxSearches == 1

SearchQueries ==
  {<<"1","6","g","b"," ","r","t","x"," ","5","0"," ","s","e","r","i","e",
     "s">>,
   <<"a","s","u","s"," ","l","a","p","t","o","p">>,
   <<" ","1","6","g","b">>,
   <<"7">>,
   <<"!","!","!">>,
   <<" "," "," ">>}

SearchLimits == {0, 2}

SearchArgs == [query : SearchQueries, limit : SearchLimits]

\* the id lists with which the shop answers a search
SearchIdLists ==
  {<<>>, <<1, 2>>, <<1, 2, 3, 4, 5, 6, 7, 8, 9, 10>>}

SearchReplies ==
  {[ok |-> FALSE, ids |-> <<>>]} \cup {[ok |-> TRUE, ids |-> l] : l \in SearchIdLists}

\* the searches of a run that looks at the ranking: queries of 1, 2, 4, 5 and
\* 10 variations, the second and the last with a brand; a limit that is
\* absent, negative or beyond the maximum
RankingQueries ==
  {<<"l","a","p","t","o","p">>,
   <<"a","s","u","s"," ","l","a","p","t","o","p">>,
   <<"g","a","m","i","n","g"," ","l","a","p","t","o","p"," ","1","6","g","b">>,
   <<"l","a","p","t","o","p"," ","1","6","g","b"," ","5","1","2","g","b">>,
   <<"r","t","x"," ","5","0"," ","s","e","r","i","e","s">>}

RankingLimits == {0, -1, 12}

RankingArgs == [query : RankingQueries, limit : RankingLimits]

\* the id lists with which the shop answers a search in such a run: nothing,
\* a list that repeats an id, five ids, ten ids
RankingIdLists ==
  {<<>>, <<2, 1, 2>>, <<5, 4, 3, 2, 1>>, <<1, 2, 3, 4, 5, 6, 7, 8, 9, 10>>}

RankingReplies == {[ok |-> TRUE, ids |-> l] : l \in RankingIdLists}

\* the arguments and the search replies of a run
ArgsOf(f) == IF f = "ranking" THEN RankingArgs ELSE SearchArgs

RepliesOf(f) == IF f = "ranking" THEN RankingReplies ELSE SearchReplies

\* the product the shop has under a numeric query
DirectReplies ==
  {[ok |-> FALSE, found |-> FALSE, product |-> Catalog[7]],
   [ok |-> TRUE, found |-> FALSE, product |-> Catalog[7]],
   [ok |-> TRUE, found |-> TRUE, product |-> Catalog[7]]}

\* the shop's products with the ids asked for, lowest id first
ProductsOf(ids) == SelectSeq(Catalog, LAMBDA p : p.id \in ids)

Reverse(xs) == [i \in 1..Len(xs) |-> xs[Len(xs) + 1 - i]]

\* the answers of the shop to the detail fetch: a failure, no product, the
\* products asked for by rising id or by falling id
DetailReplies(sortedIds) ==
  {[ok |-> FALSE, products |-> <<>>],
   [ok |-> TRUE, products |-> <<>>],
   [ok |-> TRUE, products |-> ProductsOf(SeqToSet(sortedIds))],
   [ok |-> TRUE, products |-> Reverse(ProductsOf(SeqToSet(sortedIds)))]}

\* a shop that holds the graphics card and the cable
ShopCatalog == <<Catalog[1], Catalog[2]>>

\* that shop's search: the products in whose name some word of the query
\* occurs, letter case aside
ShopSearch(query) ==
  LET words == SplitSpaces(ToLower(Trim(query)))
      hits == SelectSeq(ShopCatalog,
                        LAMBDA p : \E i \in 1..Len(words) :
                                      Includes(ToLower(extractProductName(p.name)),
                                               words[i]))
  IN [k \in 1..Len(hits) |-> hits[k].id]

\* that shop's answer to the detail fetch: the products asked for, in either
\* order
ShopDetails(sortedIds) ==
  {[ok |-> TRUE, products |-> SelectSeq(ShopCatalog, LAMBDA p : p.id \in SeqToSet(sortedIds))],
   [ok |-> TRUE, products |-> Reverse(SelectSeq(ShopCatalog, LAMBDA p : p.id \in SeqToSet(sortedIds)))]}

\* the search has heard an answer, which was or was not that shop's; a
\* search begins with what the searches before have heard, whose answers the
\* cache may hold
Heard(s, asShop) == [s EXCEPT !.asShop = @ /\ asShop]

SearchProductsStart ==
  /\ focus \in {"tools", "ranking"}
  /\ sp.pc \in {"idle", "done"}
  /\ toolCalls = 0
  /\ searches < MaxSearches
  /\ \E args \in ArgsOf(focus) :
       \E s0 \in {Heard(SearchProductsBegin(args), sp.asShop)} :
          ResumeText(s0, searchCache, now)
  /\ searches' = searches + 1
  /\ UNCHANGED <<clockVars, focus, pureVars, rateVars, cacheVars, toolVars, fetchVars>>

DirectReply ==
  /\ focus = "tools"
  /\ sp.pc = "direct"
  /\ \E reply \in DirectReplies :
       \E s0 \in {Heard(SearchProductsDirect(sp, reply), FALSE)} :
          ResumeText(s0, searchCache, now)
  /\ UNCHANGED <<clockVars, focus, pureVars, rateVars, cacheVars, searches, toolVars, fetchVars>>

VariationReply ==
  /\ focus \in {"tools", "ranking"}
  /\ sp.pc \in {"first", "additional", "fallback"}
  /\ \E j \in 1..Len(sp.slots), reply \in RepliesOf(focus) :
        /\ sp.slots[j].state = "pending"
        /\ \E cache \in {IF reply.ok
                            THEN SearchCacheStore(
                                   searchCache,
                                   [key |-> sp.slots[j].key, ids |-> reply.ids,
                                    time |-> sp.slots[j].time, setAt |-> now])
                            ELSE searchCache} :
             /\ searchCache' = cache
             /\ \E s1 \in {Heard(SearchProductsAnswer(sp, j, reply),
                                  /\ reply.ok
                                  /\ reply.ids =
                                       ShopSearch(sp.variations[sp.slots[j].idx + 1]))} :
                   ResumeSearches(s1, cache, now)
  /\ UNCHANGED <<clockVars, focus, pureVars, rateVars, productCache, cachePending,
                 lastLookup, lastStore, lastReply, searches, toolVars, fetchVars>>

DetailReply ==
  /\ focus \in {"tools", "ranking"}
  /\ sp.pc = "detail"
  /\ \E reply \in DetailReplies(sp.sortedIds) :
        sp' = Heard(SearchProductsDetail(sp, reply),
                    reply \in ShopDetails(sp.sortedIds))
  /\ UNCHANGED <<clockVars, focus, pureVars, rateVars, cacheVars, searches, toolVars, fetchVars>>

(***************************************************************************)
(* The other tools: getOrderStatus, checkProductStock, getTrackingInfo,    *)
(* createSupportTicket                                                     *)
(***************************************************************************)
CARRIER_CACHE_TTL == 3600000

\* carrierCacheTime starts at 0 while Date.now() is far beyond the TTL; on
\* the model's clock, which starts at 0, that is a TTL before the start
CarrierCacheNever == 0 - CARRIER_CACHE_TTL

StandardShipping == "Standard shipping"

\* the values of a tool's arguments: undefined, a string, a number held in
\* tenths (Num(15) is 1.5)
Undefined == [kind |-> "undefined", text |-> <<>>, tenths |-> 0]

Str(text) == [kind |-> "string", text |-> text, tenths |-> 0]

Num(tenths) == [kind |-> "number", text |-> <<>>, tenths |-> tenths]

\* ToBoolean of an argument
Truthy(v) ==
  CASE v.kind = "string" -> Len(v.text) > 0
    [] v.kind = "number" -> v.tenths # 0
    [] OTHER -> FALSE

\* Number.isInteger
IsInteger(v) == v.kind = "number" /\ v.tenths % 10 = 0

\* a test of the reference that takes any text
isValidOrderReferenceLoose(ref) == Len(ref) > 0

\* /^[A-Z0-9]{9}$/i
isValidOrderReference(ref) ==
  /\ Len(ref) = 9
  /\ \A i \in 1..Len(ref) : ref[i] \in UpperLetters \cup LowerLetters \cup Digits

\* /^[^\s@]+@[^\s@]+\.[^\s@]+$/: one @ that is not the first character, no
\* white space, and after the @ a dot with a character on each side
isValidEmail(email) ==
  \E a \in 2..Len(email) :
     /\ email[a] = "@"
     /\ \A i \in 1..Len(email) :
           /\ email[i] \notin SpaceChars
           /\ i # a => email[i] # "@"
     /\ \E d \in (a + 2)..(Len(email) - 1) : email[d] = "."

NoArgs ==
  [reference |-> Undefined, email |-> Undefined, phone |-> Undefined,
   order_id |-> Undefined, product_id |-> Undefined,
   product_name |-> Undefined, message |-> Undefined]

NoToolResult == [success |-> FALSE, kind |-> "", carrier |-> ""]

NoShipment == [found |-> FALSE, idCarrier |-> 0, tracking |-> FALSE]

\* the URL a call of a role requests, up to the arguments of the invocation:
\* the refresh of the carrier cache by getTrackingInfo and the fetch of
\* getCarrierName request the same /carriers?display=[id,name]; the other
\* calls of one invocation differ in their resource or their filter
Endpoint(role) ==
  IF role \in {"carriersRefresh", "carrierName"} THEN "carriers" ELSE role

\* pending: the upstream calls in flight, those of an invocation that has
\* returned included (live is FALSE for them).  failed and retried are
\* history: the endpoints whose call failed during the invocation, and
\* whether the invocation requested one of them again
NoTool ==
  [pc |-> "idle", name |-> "", args |-> NoArgs, stage |-> "",
   pending |-> <<>>, calls |-> 0, found |-> {}, shipment |-> NoShipment,
   result |-> NoToolResult, failed |-> {}, retried |-> FALSE]

\* the handler returns; the calls it did not wait for stay in flight
Return(t, success, kind, carrier) ==
  [t EXCEPT !.pc = "done", !.stage = "",
            !.pending = [i \in 1..Len(@) |-> [@[i] EXCEPT !.live = FALSE]],
            !.result = [success |-> success, kind |-> kind, carrier |-> carrier]]

\* the handler issues the calls of roles, one after the other with no await
\* between them, and awaits them; each call begins with fetch awaited and
\* its timer armed (phase "headers")
Call(t, roles, stage, key, at) ==
  [t EXCEPT !.stage = stage,
            !.pending = @ \o [i \in 1..Len(roles) |->
                                [role |-> roles[i], live |-> TRUE, key |-> key,
                                 time |-> at, phase |-> "headers"]],
            !.calls = @ + Len(roles),
            !.retried = @ \/ \E i \in 1..Len(roles) :
                                 Endpoint(roles[i]) \in t.failed]

\* the handler still awaits a call
Awaiting(t) == \E i \in 1..Len(t.pending) : t.pending[i].live

\* getOrderStatus(env, args) up to its first await
GetOrderStatusStart(t, args, at) ==
  IF Truthy(args.reference)
    THEN IF ~isValidOrderReference(args.reference.text)
           THEN Return(t, FALSE, "badReference", "")
           ELSE Call(t, <<"orderByRef">>, "order", 0, at)
  ELSE IF Truthy(args.email)
    THEN IF ~isValidEmail(args.email.text)
           THEN Return(t, FALSE, "badEmail", "")
           ELSE Call(t, <<"customerByEmail">>, "customer", 0, at)
  ELSE IF Truthy(args.phone)
    THEN Call(t, <<"addressByPhone", "addressByMobile">>, "addresses", 0, at)
  ELSE Return(t, FALSE, "provide", "")

\* getProductInfo's cache test
ProductCacheHit(cache, productId, at) ==
  /\ MapIndex(cache, productId) > 0
  /\ ProductCacheFresh(cache[MapIndex(cache, productId)], at)

\* checkProductStock(env, args) up to its first await
CheckProductStockStart(t, args, pcache, at) ==
  IF Truthy(args.product_name) /\ ~Truthy(args.product_id)
    THEN IF Len(sanitizeSearchQuery(args.product_name.text)) = 0
           THEN Return(t, FALSE, "badProductName", "")
           ELSE Call(t, <<"searchByName">>, "nameSearch", 0, at)
  ELSE IF \/ ~Truthy(args.product_id)
          \/ ~IsInteger(args.product_id)
          \/ args.product_id.tenths <= 0
    THEN Return(t, FALSE, "badProductId", "")
  ELSE IF ProductCacheHit(pcache, args.product_id.tenths \div 10, at)
    THEN Call(t, <<"stock">>, "stock", args.product_id.tenths \div 10, at)
  ELSE Call(t, <<"productInfo", "stock">>, "stock",
            args.product_id.tenths \div 10, at)

\* getTrackingInfo from the fetch of the order's carriers on: the carrier
\* cache is refreshed alongside when it is stale
TrackingFetch(t, cctime, at) ==
  IF (at - cctime) >= CARRIER_CACHE_TTL
    THEN Call(t, <<"orderCarriers", "carriersRefresh">>, "orderCarriers", 0, at)
    ELSE Call(t, <<"orderCarriers">>, "orderCarriers", 0, at)

\* getTrackingInfo(env, args) up to its first await
GetTrackingInfoStart(t, args, cctime, at) ==
  IF Truthy(args.reference) /\ ~Truthy(args.order_id)
    THEN IF ~isValidOrderReference(args.reference.text)
           THEN Return(t, FALSE, "badReference", "")
           ELSE Call(t, <<"orderIdByRef">>, "orderId", 0, at)
    ELSE TrackingFetch(t, cctime, at)

\* createSupportTicket(env, args) up to its await
CreateSupportTicketStart(t, args, at) ==
  IF args.message.kind # "string" \/ Len(Trim(args.message.text)) = 0
    THEN Return(t, FALSE, "describe", "")
    ELSE Call(t, <<"ticket">>, "ticket", 0, at)

\* a tool begins; the calls in flight of the invocations before stay
ToolStart(name, args, flying, pcache, cctime, at) ==
  LET t == [NoTool EXCEPT !.pc = "running", !.name = name, !.args = args,
                          !.pending = flying]
  IN CASE name = "getOrderStatus" -> GetOrderStatusStart(t, args, at)
       [] name = "checkProductStock" -> CheckProductStockStart(t, args, pcache, at)
       [] name = "getTrackingInfo" -> GetTrackingInfoStart(t, args, cctime, at)
       [] name = "createSupportTicket" -> CreateSupportTicketStart(t, args, at)

\* checkProductStock once the product and its stock are back
StockJoin(t) ==
  IF Awaiting(t) THEN t
  ELSE IF "stock" \notin t.found THEN Return(t, FALSE, "noStock", "")
  ELSE Return(t, TRUE, "stock", "")

\* getOrderStatus once both address lookups are back
AddressJoin(t, at) ==
  IF Awaiting(t) THEN t
  ELSE IF t.found = {} THEN Return(t, FALSE, "noCustomer", "")
  ELSE Call(t, <<"latestOrder">>, "latestOrder", 0, at)

\* getTrackingInfo once the order's carriers are back and the refresh of the
\* carrier cache has ended: getCarrierName answers from the cache or calls
TrackingJoin(t, ccache, cctime, at) ==
  IF Awaiting(t) THEN t
  ELSE IF ~t.shipment.found THEN Return(t, FALSE, "noShipping", "")
  ELSE IF t.shipment.idCarrier = 0 THEN Return(t, TRUE, "tracking", StandardShipping)
  ELSE IF (at - cctime) < CARRIER_CACHE_TTL /\ t.shipment.idCarrier \in DOMAIN ccache
    THEN Return(t, TRUE, "tracking", ccache[t.shipment.idCarrier])
  ELSE Call(t, <<"carrierName">>, "carrierName", 0, at)

\* the handler goes on after the answer to one of its calls; t is the tool
\* without that call, ccache and cctime the carrier cache after the answer
ToolAnswer(t, call, reply, ccache, cctime, at) ==
  IF ~call.live THEN t
  ELSE CASE call.role = "orderByRef" ->
              IF ~reply.ok THEN Return(t, FALSE, "unable", "")
              ELSE IF ~reply.found THEN Return(t, FALSE, "noOrder", "")
              ELSE Return(t, TRUE, "order", "")
         [] call.role = "customerByEmail" ->
              IF ~reply.ok THEN Return(t, FALSE, "unable", "")
              ELSE IF ~reply.found THEN Return(t, FALSE, "noCustomer", "")
              ELSE Call(t, <<"latestOrder">>, "latestOrder", 0, at)
         [] call.role = "latestOrder" ->
              IF ~reply.ok THEN Return(t, FALSE, "unable", "")
              ELSE IF ~reply.found THEN Return(t, FALSE, "noOrders", "")
              ELSE Return(t, TRUE, "order", "")
         [] call.role \in {"addressByPhone", "addressByMobile"} ->
              IF ~reply.ok THEN Return(t, FALSE, "unable", "")
              ELSE AddressJoin([t EXCEPT !.found =
                                  IF reply.found THEN @ \cup {call.role} ELSE @],
                               at)
         [] call.role = "searchByName" ->
              IF ~reply.ok THEN Return(t, FALSE, "unable", "")
              ELSE IF ~reply.found THEN Return(t, FALSE, "noProduct", "")
              ELSE Call(t, <<"productByName">>, "productByName", 0, at)
         [] call.role = "productByName" ->
              IF ~reply.ok THEN Return(t, FALSE, "unable", "")
              ELSE Call(t, <<"stockByName">>, "stockByName", 0, at)
         [] call.role = "stockByName" ->
              IF ~reply.ok THEN Return(t, FALSE, "unable", "")
              ELSE IF ~reply.found THEN Return(t, FALSE, "noStock", "")
              ELSE Return(t, TRUE, "stock", "")
         [] call.role = "productInfo" -> StockJoin(t)
         [] call.role = "stock" ->
              IF ~reply.ok THEN Return(t, FALSE, "unable", "")
              ELSE StockJoin([t EXCEPT !.found =
                                IF reply.found THEN @ \cup {"stock"} ELSE @])
         [] call.role = "orderIdByRef" ->
              IF ~reply.ok THEN Return(t, FALSE, "unable", "")
              ELSE IF ~reply.found THEN Return(t, FALSE, "noOrder", "")
              ELSE TrackingFetch(t, cctime, at)
         [] call.role = "orderCarriers" ->
              IF ~reply.ok THEN Return(t, FALSE, "unable", "")
              ELSE TrackingJoin([t EXCEPT !.shipment =
                                   [found |-> reply.found,
                                    idCarrier |-> reply.idCarrier,
                                    tracking |-> reply.tracking]],
                                ccache, cctime, at)
         [] call.role = "carriersRefresh" -> TrackingJoin(t, ccache, cctime, at)
         [] call.role = "carrierName" ->
              Return(t, TRUE, "tracking",
                     IF reply.ok /\ t.shipment.idCarrier \in DOMAIN reply.carriers
                       THEN reply.carriers[t.shipment.idCarrier]
                       ELSE StandardShipping)
         [] call.role = "ticket" ->
              IF ~reply.ok THEN Return(t, FALSE, "ticketFailed", "")
              ELSE Return(t, TRUE, "ticket", "")

\* the invocations of a run
MaxToolCalls == 1

ToolReferences ==
  {Undefined, Str(<<>>), Str(<<"A","B","C","1","2","3","x","y","z">>), Str(<<"A","B","C","-","2","3","x","y","z">>),
   Str(<<"A","B","C","1","2">>), Str(<<"A","B","C","1","2","3","x","y","z","0">>)}

ToolEmails ==
  {Undefined, Str(<<"a","@","b",".","c">>), Str(<<"a","@","b">>),
   Str(<<"a","b",".","c">>), Str(<<"a"," ","@","b",".","c">>),
   Str(<<"a","@","b",".">>), Str(<<"a","@","@","b",".","c">>)}

ToolPhones == {Undefined, Str(<<"+","3","5","7"," ","9","9">>)}

ToolIds == {Undefined, Num(0), Num(-10), Num(15), Num(50), Str(<<"5">>)}

ToolNames == {Undefined, Str(<<>>), Str(<<" "," ">>), Str(<<"[","|","]">>),
              Str(<<"r","t","x">>)}

ToolMessages == {Undefined, Str(<<>>), Str(<<" "," ">>), Str(<<"h","e","l","p">>)}

\* what the voice platform asks of the four tools
ToolInputs ==
  {[name |-> "getOrderStatus",
    args |-> [NoArgs EXCEPT !.reference = r, !.email = e, !.phone = ph]] :
     r \in ToolReferences, e \in ToolEmails, ph \in ToolPhones}
  \cup
  {[name |-> "getTrackingInfo",
    args |-> [NoArgs EXCEPT !.reference = r, !.order_id = o]] :
     r \in ToolReferences, o \in {Undefined, Num(0), Num(50)}}
  \cup
  {[name |-> "checkProductStock",
    args |-> [NoArgs EXCEPT !.product_id = i, !.product_name = n]] :
     i \in ToolIds, n \in ToolNames}
  \cup
  {[name |-> "createSupportTicket",
    args |-> [NoArgs EXCEPT !.message = msg, !.order_id = o]] :
     msg \in ToolMessages, o \in {Undefined, Num(-15)}}

NoCarriers == <<>>

\* the answers of the shop to a call: a failure (an error status, a timeout),
\* nothing found, or what was asked for
ToolReplies(role) ==
  IF role = "orderCarriers"
    THEN {[ok |-> FALSE, found |-> FALSE, idCarrier |-> 0, tracking |-> FALSE,
           carriers |-> NoCarriers],
          [ok |-> TRUE, found |-> FALSE, idCarrier |-> 0, tracking |-> FALSE,
           carriers |-> NoCarriers]}
         \cup {[ok |-> TRUE, found |-> TRUE, idCarrier |-> c, tracking |-> tr,
                carriers |-> NoCarriers] : c \in {0, 3}, tr \in BOOLEAN}
  ELSE IF role \in {"carriersRefresh", "carrierName"}
    THEN {[ok |-> FALSE, found |-> FALSE, idCarrier |-> 0, tracking |-> FALSE,
           carriers |-> NoCarriers]}
         \cup {[ok |-> TRUE, found |-> TRUE, idCarrier |-> 0, tracking |-> FALSE,
                carriers |-> c] : c \in {NoCarriers, 3 :> "DHL", 4 :> "ACS"}}
  ELSE {[ok |-> o, found |-> f, idCarrier |-> 0, tracking |-> FALSE,
         carriers |-> NoCarriers] : o \in BOOLEAN, f \in BOOLEAN} \
       {[ok |-> FALSE, found |-> TRUE, idCarrier |-> 0, tracking |-> FALSE,
         carriers |-> NoCarriers]}

\* the voice platform invokes one of the four tools; they share no state
\* with searchProducts, so a run exercises the one or the others
ToolCall ==
  /\ focus \in {"tools", "live"}
  /\ tool.pc \in {"idle", "done"}
  /\ searches = 0
  /\ toolCalls < MaxToolCalls
  /\ \E input \in ToolInputs :
        tool' = ToolStart(input.name, input.args, tool.pending, productCache,
                          carrierCacheTime, now)
  /\ toolCalls' = toolCalls + 1
  /\ UNCHANGED <<clockVars, focus, pureVars, rateVars, cacheVars, searchVars,
                 carrierCache, carrierCacheTime, fetchVars>>

\* the call at position k of pending ends with reply and its caller goes on
CallEnds(k, reply) ==
     \E call \in {tool.pending[k]} :
        /\ productCache' =
             IF call.role = "productInfo" /\ reply.ok /\ reply.found
               THEN ProductCacheStore(productCache,
                                      [key |-> call.key, product |-> call.key,
                                       time |-> call.time, setAt |-> now])
               ELSE productCache
        /\ \E ccache \in {IF call.role \in {"carriersRefresh", "carrierName"}
                             /\ reply.ok
                            THEN reply.carriers ELSE carrierCache} :
           \E cctime \in {IF ~reply.ok THEN carrierCacheTime
                          ELSE IF call.role = "carriersRefresh" THEN now
                          ELSE IF call.role = "carrierName" THEN call.time
                          ELSE carrierCacheTime} :
           \E t \in {[tool EXCEPT !.pending =
                        SubSeq(@, 1, k - 1) \o SubSeq(@, k + 1, Len(@)),
                                  !.failed =
                        IF tool.pc = "running" /\ call.live /\ ~reply.ok
                          THEN @ \cup {Endpoint(call.role)} ELSE @]} :
              /\ carrierCache' = ccache
              /\ carrierCacheTime' = cctime
              /\ tool' = ToolAnswer(t, call, reply, ccache, cctime, now)

\* the shop answers a call of a tool, or the call fails
ToolReply ==
  /\ focus = "tools"
  /\ \E k \in 1..Len(tool.pending) :
     \E reply \in ToolReplies(tool.pending[k].role) : CallEnds(k, reply)
  /\ UNCHANGED <<clockVars, focus, pureVars, rateVars, searchCache, cachePending,
                 lastLookup, lastStore, lastReply, searchVars, toolCalls, fetchVars>>

\* a call that threw: a network error, an abort, an error status
FailedReply ==
  [ok |-> FALSE, found |-> FALSE, idCarrier |-> 0, tracking |-> FALSE,
   carriers |-> NoCarriers]

\* the phase of a call once fetch has resolved: createSupportTicket reads no
\* body; prestashopFetch reads the error text of a non-2xx response and
\* the JSON of the others
AfterHeaders(role, okStatus) ==
  IF role = "ticket" THEN "settled"
  ELSE IF okStatus THEN "body"
  ELSE "errorText"

\* await fetch(...) ends: it rejects (a network error), or the response's
\* status and headers are there and clearTimeout(timeoutId) disarms the
\* timer of the call
ResponseHeaders ==
  /\ focus = "live"
  /\ \E k \in 1..Len(tool.pending) :
     \E okStatus \in BOOLEAN :
     \E rejected \in BOOLEAN :
        /\ tool.pending[k].phase = "headers"
        /\ IF rejected
             THEN CallEnds(k, FailedReply)
           ELSE IF AfterHeaders(tool.pending[k].role, okStatus) = "settled"
             THEN CallEnds(k, [FailedReply EXCEPT !.ok = okStatus])
           ELSE /\ tool' = [tool EXCEPT !.pending[k].phase =
                              AfterHeaders(tool.pending[k].role, okStatus)]
                /\ UNCHANGED <<productCache, carrierCache, carrierCacheTime>>
  /\ UNCHANGED <<clockVars, focus, pureVars, rateVars, searchCache, cachePending,
                 lastLookup, lastStore, lastReply, searchVars, toolCalls, fetchVars>>

\* the timer of a call fires while fetch is awaited: controller.abort()
\* rejects the fetch with an AbortError
TimerFires ==
  /\ focus = "live"
  /\ \E k \in 1..Len(tool.pending) :
        /\ tool.pending[k].phase = "headers"
        /\ CallEnds(k, FailedReply)
  /\ UNCHANGED <<clockVars, focus, pureVars, rateVars, searchCache, cachePending,
                 lastLookup, lastStore, lastReply, searchVars, toolCalls, fetchVars>>

\* the body of a response has arrived whole (or its reading has failed):
\* response.json() or response.text() settles, with no timer armed
ResponseBody ==
  /\ focus = "live"
  /\ \E k \in 1..Len(tool.pending) :
     \E reply \in ToolReplies(tool.pending[k].role) :
        /\ tool.pending[k].phase \in {"body", "errorText"}
        /\ tool.pending[k].phase = "errorText" => reply = FailedReply
        /\ CallEnds(k, reply)
  /\ UNCHANGED <<clockVars, focus, pureVars, rateVars, searchCache, cachePending,
                 lastLookup, lastStore, lastReply, searchVars, toolCalls, fetchVars>>

(***************************************************************************)
(* The fetch handler                                                       *)
(***************************************************************************)
\* the names RETELL_TOOLS maps to a tool
RETELL_TOOLS ==
  {<<"g","e","t","O","r","d","e","r","S","t","a","t","u","s">>,
   <<"c","h","e","c","k","P","r","o","d","u","c","t","S","t","o","c","k">>,
   <<"g","e","t","T","r","a","c","k","i","n","g","I","n","f","o">>,
   <<"s","e","a","r","c","h","P","r","o","d","u","c","t","s">>,
   <<"c","r","e","a","t","e","S","u","p","p","o","r","t","T","i","c","k","e","t">>}

\* RETELL_TOOLS is an object literal, so RETELL_TOOLS[toolName] also finds
\* what it inherits from Object.prototype: functions that return when they
\* are called as handler(env, args), and members that throw
InheritedReturning == {<<"c","o","n","s","t","r","u","c","t","o","r">>, <<"t","o","S","t","r","i","n","g">>}

InheritedThrowing == {<<"v","a","l","u","e","O","f">>, <<"_","_","p","r","o","t","o","_","_">>}

\* env.RETELL_API_KEY: undefined, or a string
NoKey == [kind |-> "undefined", text |-> ""]

RetellKeys == {NoKey, [kind |-> "string", text |-> ""],
               [kind |-> "string", text |-> "k1"]}

\* if (env.RETELL_API_KEY)
KeySet(key) == key.kind = "string" /\ key.text # ""

\* the lower-case hex of the HMAC-SHA256 of body under key, kept symbolic:
\* different keys or bodies have different digests
Hmac(key, body) == <<"hmac", key, body>>

\* request.headers.get('x-retell-signature'): null, or the header's text
NoSignature == [present |-> FALSE, value |-> <<>>]

\* a verification that only wants the header to be there
verifyRetellSignatureLenient(signature, body, apiKey) == signature.present

\* verifyRetellSignature(request, body, apiKey)
verifyRetellSignature(signature, body, apiKey) ==
  IF ~signature.present \/ signature.value = <<>> THEN FALSE
  ELSE signature.value = Hmac(apiKey, body)

\* String.prototype.startsWith
StartsWith(s, w) == MatchAt(s, 1, w)

\* s.replace(w, ''): the first occurrence of w removed
ReplaceFirst(s, w) ==
  IF ~Includes(s, w) THEN s
  ELSE LET p == CHOOSE i \in 1..Len(s) :
                   MatchAt(s, i, w) /\ \A j \in 1..(i - 1) : ~MatchAt(s, j, w)
       IN SubSeq(s, 1, p - 1) \o SubSeq(s, p + Len(w), Len(s))

RetellPrefix == <<"/","r","e","t","e","l","l","/">>

\* the tool name of a path: /retell/getOrderStatus and /getOrderStatus
ToolNameOf(path) ==
  IF StartsWith(path, RetellPrefix) THEN ReplaceFirst(path, RetellPrefix)
  ELSE ReplaceFirst(path, <<"/">>)

\* RETELL_TOOLS[toolName] is truthy
HasHandler(toolName) ==
  toolName \in RETELL_TOOLS \cup InheritedReturning \cup InheritedThrowing

\* JSON.parse accepts the text; of the bodies of the model's requests it
\* accepts the empty object and rejects the unfinished one
JsonValid(text) == text = <<"{","}">>

NoRequest ==
  [pc |-> "none", method |-> "", path |-> <<>>, ip |-> "",
   signature |-> NoSignature, body |-> <<>>, readable |-> TRUE,
   steps |-> <<>>, toolName |-> <<>>, handlerRan |-> FALSE, upstream |-> 0,
   status |-> 0, replies |-> 0, json |-> FALSE, threw |-> FALSE]

\* return new Response(...): json tells whether the body is a JSON text
Respond(r, status, json) ==
  [r EXCEPT !.pc = "done", !.status = status, !.replies = @ + 1,
            !.json = json, !.steps = Append(@, "reply")]

\* an exception that leaves the fetch handler
Propagate(r) == [r EXCEPT !.pc = "done", !.threw = TRUE]

\* catch (error): the INTERNAL_ERROR response
Catch(r) == Respond(r, 500, TRUE)

\* the checks on the method: the CORS preflight is answered without a body,
\* any method but POST with 405
MethodCheck(r) ==
  IF r.method = "OPTIONS" THEN Respond(r, 200, FALSE)
  ELSE IF r.method # "POST" THEN Respond(r, 405, TRUE)
  ELSE r

\* a handler that goes on without asking the rate limiter
AdmitUnasked(r, allowed) == [r EXCEPT !.pc = "body"]

\* the request after checkRateLimit has answered
Admit(r, allowed) ==
  IF allowed
    THEN [r EXCEPT !.pc = "body", !.steps = Append(@, "rateLimit")]
    ELSE Respond([r EXCEPT !.steps = Append(@, "rateLimit")], 429, TRUE)

\* JSON.parse(bodyText), then the handler is called: a member that throws
\* when called throws at once, anything else is awaited
ParseAndCall(r) ==
  IF ~JsonValid(r.body)
    THEN Catch([r EXCEPT !.steps = Append(@, "parse")])
  ELSE IF r.toolName \in InheritedThrowing
    THEN Catch([r EXCEPT !.steps = @ \o <<"parse", "handler">>,
                         !.handlerRan = TRUE])
  ELSE [r EXCEPT !.pc = "handler", !.steps = @ \o <<"parse", "handler">>,
                 !.handlerRan = TRUE]

\* the handler after request.text(): the tool is looked up, the signature
\* is verified when a secret is configured
AfterBody(r, key) ==
  IF ~r.readable THEN Catch([r EXCEPT !.steps = Append(@, "readBody")])
  ELSE IF ~HasHandler(ToolNameOf(r.path))
    THEN Respond([r EXCEPT !.steps = @ \o <<"readBody", "toolLookup">>,
                           !.toolName = ToolNameOf(r.path)],
                 404, TRUE)
  ELSE IF KeySet(key)
    THEN [r EXCEPT !.pc = "verify",
                   !.steps = @ \o <<"readBody", "toolLookup", "signature">>,
                   !.toolName = ToolNameOf(r.path)]
  ELSE ParseAndCall([r EXCEPT !.steps = @ \o <<"readBody", "toolLookup">>,
                              !.toolName = ToolNameOf(r.path)])

\* the handler after verifyRetellSignature
AfterSignature(r, key) ==
  IF ~verifyRetellSignature(r.signature, r.body, key.text)
    THEN Respond(r, 401, TRUE)
    ELSE ParseAndCall(r)

\* the handler after the tool has returned: JSON.stringify(result)
AfterHandler(r, calls) ==
  Respond([r EXCEPT !.upstream = calls,
                    !.steps = IF calls > 0 THEN Append(@, "upstream") ELSE @],
          200, TRUE)

\* the requests of a run
MaxRequests == 1

RequestPaths ==
  {<<"/","r","e","t","e","l","l","/","g","e","t","O","r","d","e","r","S","t","a","t","u","s">>,
   <<"/","s","e","a","r","c","h","P","r","o","d","u","c","t","s">>,
   <<"/","r","e","t","e","l","l","/","n","o","p","e">>,
   <<"/","c","o","n","s","t","r","u","c","t","o","r">>,
   <<"/","v","a","l","u","e","O","f">>}

RequestBodies == {<<"{","}">>, <<"{">>}

\* the signature headers a request with this body may carry: none, an empty
\* one, the digest under the secret, the digest of another body, the digest
\* under another key
RequestSignatures(body) ==
  {NoSignature, [present |-> TRUE, value |-> <<>>],
   [present |-> TRUE, value |-> Hmac("k1", body)],
   [present |-> TRUE, value |-> Hmac("k1", <<"{","}","x">>)],
   [present |-> TRUE, value |-> Hmac("k2", body)]}

\* the requests that arrive: a preflight, a GET, and POSTs with a path, a
\* client address, a body that can or cannot be read and a signature header
Requests ==
  {[NoRequest EXCEPT !.pc = "new", !.method = mth, !.ip = "a"] :
     mth \in {"OPTIONS", "GET"}}
  \cup
  UNION {{[NoRequest EXCEPT !.pc = "new", !.method = "POST", !.path = path,
                            !.ip = ip, !.body = body, !.readable = rd,
                            !.signature = sig] :
            sig \in RequestSignatures(body)} :
         path \in RequestPaths, ip \in Clients, body \in RequestBodies,
         rd \in BOOLEAN}

\* what the tool does once awaited: it returns after some upstream calls
\* (the tools catch their own exceptions; the inherited functions call
\* nothing)
HandlerCalls(toolName) == IF toolName \in RETELL_TOOLS THEN 0..2 ELSE {0}

\* the request ends and leaves the handler, or stays in flight
Settle(i, r) ==
  IF r.pc = "done"
    THEN /\ answered' = r
         /\ inflight' = SubSeq(inflight, 1, i - 1)
                        \o SubSeq(inflight, i + 1, Len(inflight))
    ELSE /\ inflight' = [inflight EXCEPT ![i] = r]
         /\ UNCHANGED answered

\* fetch(request, env) up to its first await
FetchReceive ==
  /\ focus = "fetch"
  /\ requests < MaxRequests
  /\ requests' = requests + 1
  /\ \E request \in Requests :
     \E r0 \in {MethodCheck([request EXCEPT !.steps = <<"method">>])} :
        IF r0.pc = "done"
          THEN /\ answered' = r0
               /\ UNCHANGED <<inflight, rateVars>>
          ELSE /\ \E sweep \in BOOLEAN : checkRateLimit(r0.ip, sweep)
               /\ \E r1 \in {Admit(r0, lastCheck'.allowed)} :
                     IF r1.pc = "done"
                       THEN answered' = r1 /\ UNCHANGED inflight
                       ELSE inflight' = Append(inflight, r1) /\ UNCHANGED answered
  /\ UNCHANGED <<clockVars, focus, pureVars, cacheVars, searchVars, toolVars, retellKey>>

\* request.text() settles
BodyRead ==
  /\ focus = "fetch"
  /\ \E i \in 1..Len(inflight) :
        /\ inflight[i].pc = "body"
        /\ \E r \in {AfterBody(inflight[i], retellKey)} : Settle(i, r)
  /\ UNCHANGED <<clockVars, focus, pureVars, rateVars, cacheVars, searchVars, toolVars,
                 retellKey, requests>>

\* verifyRetellSignature settles
SignatureVerified ==
  /\ focus = "fetch"
  /\ \E i \in 1..Len(inflight) :
        /\ inflight[i].pc = "verify"
        /\ \E r \in {AfterSignature(inflight[i], retellKey)} : Settle(i, r)
  /\ UNCHANGED <<clockVars, focus, pureVars, rateVars, cacheVars, searchVars, toolVars,
                 retellKey, requests>>

\* the tool settles
HandlerDone ==
  /\ focus = "fetch"
  /\ \E i \in 1..Len(inflight) :
        /\ inflight[i].pc = "handler"
        /\ \E calls \in HandlerCalls(inflight[i].toolName) :
           \E r \in {AfterHandler(inflight[i], calls)} : Settle(i, r)
  /\ UNCHANGED <<clockVars, focus, pureVars, rateVars, cacheVars, searchVars, toolVars,
                 retellKey, requests>>

(***************************************************************************)
(* The pure functions applied to inputs                                    *)
(***************************************************************************)
\* the words of a query
MaxQueryWords == 3

\* the words of a product name
MaxNameWords == 6

QueryWords == {<<"r","t","x">>, <<"5","0">>, <<"s","e","r","i","e","s">>, <<"1","6","g","b">>, <<"a","s","u","s">>, <<"l","a","p","t","o","p">>, <<"t","h","e">>}

\* the pieces of a product name: a separator and a word, with whether the
\* word is a technical specification (a number and a unit, a dimension, a
\* feature word), or a separator alone (word empty)
NamePieces ==
  {[text |-> <<" ","P","r","o">>, word |-> <<"P","r","o">>, spec |-> FALSE],
   [text |-> <<"-","1","5","i","n","c","h">>, word |-> <<"1","5","i","n","c","h">>, spec |-> FALSE],
   [text |-> <<","," ","1","6","G","B">>, word |-> <<"1","6","G","B">>, spec |-> TRUE],
   [text |-> <<" ","1","9","2","0","x","1","0","8","0">>, word |-> <<"1","9","2","0","x","1","0","8","0">>, spec |-> TRUE],
   [text |-> <<EnDash>> \o <<"D","D","R","4">>, word |-> <<"D","D","R","4">>, spec |-> TRUE],
   [text |-> <<EnDash>>, word |-> <<>>, spec |-> FALSE]}

NoOut == [fn |-> "none", text |-> <<>>, terms |-> <<>>, variations |-> <<>>]

\* one more word of the query the caller says
TypeQueryWord ==
  /\ focus = "normalize"
  /\ out.fn = "none"
  /\ Len(typed) < MaxQueryWords
  /\ \E w \in QueryWords :
        /\ arg' = IF Len(arg) = 0 THEN w ELSE arg \o <<" ">> \o w
        /\ typed' = Append(typed, [word |-> w, spec |-> FALSE])
  /\ UNCHANGED <<clockVars, focus, rateVars, cacheVars, searchVars, toolVars,
                 fetchVars, out>>

\* normalizeSearchQuery(arg)
NormalizeQuery ==
  /\ focus = "normalize"
  /\ out.fn = "none"
  /\ \E n \in {normalizeSearchQuery(arg)} :
        out' = [NoOut EXCEPT !.fn = "normalize", !.terms = n.terms,
                             !.variations = n.variations]
  /\ UNCHANGED <<clockVars, focus, rateVars, cacheVars, searchVars, toolVars,
                 fetchVars, arg, typed>>

\* the words that follow the first technical specification of a name: a
\* plain word or another specification
TailWords == {<<"P","r","o">>, <<"1","6","G","B">>}

\* one more piece of the product name the shop holds; a name begins with a
\* word or with a separator, and every kind of word comes up to the first
\* technical specification
TypeNamePiece ==
  /\ focus = "shorten"
  /\ out.fn = "none"
  /\ Len(typed) < MaxNameWords
  /\ \E piece \in NamePieces :
        /\ Len(piece.word) = 0 => Len(arg) = 0
        /\ (\E i \in 1..Len(typed) : typed[i].spec) => piece.word \in TailWords
        /\ arg' = arg \o piece.text
        /\ typed' = IF Len(piece.word) = 0 THEN typed
                    ELSE Append(typed, [word |-> piece.word, spec |-> piece.spec])
  /\ UNCHANGED <<clockVars, focus, rateVars, cacheVars, searchVars, toolVars,
                 fetchVars, out>>

\* shortenForListing(arg)
ShortenName ==
  /\ focus = "shorten"
  /\ out.fn = "none"
  /\ out' = [NoOut EXCEPT !.fn = "shorten", !.text = shortenForListing(arg)]
  /\ UNCHANGED <<clockVars, focus, rateVars, cacheVars, searchVars, toolVars,
                 fetchVars, arg, typed>>

(***************************************************************************)
(* Specifications                                                          *)
(***************************************************************************)
\* the worker's module state when its isolate starts
InitState ==
  /\ now = 0
  /\ ticks = 0
  /\ searchCache = <<>>
  /\ productCache = <<>>
  /\ cachePending = <<>>
  /\ lastLookup = NoLookup
  /\ lastStore = NoStore
  /\ lastReply = NoReply
  /\ sp = NoSearch
  /\ searches = 0
  /\ tool = NoTool
  /\ toolCalls = 0
  /\ carrierCache = <<>>
  /\ carrierCacheTime = CarrierCacheNever
  /\ inflight = <<>>
  /\ answered = NoRequest
  /\ requests = 0
  /\ arg = <<>>
  /\ typed = <<>>
  /\ out = NoOut

\* no client has called yet
InitQuiet ==
  /\ rateLimitMap = <<>>
  /\ admitted = [ip \in Clients |-> <<>>]
  /\ lastAdmit = [ip \in Clients |-> -1]
  /\ lastCheck = NoCheck
  /\ plainMap = <<>>

\* client "a" has just used up its window: RATE_LIMIT_REQUESTS of its calls
\* were admitted at the present time
InitBusy ==
  /\ rateLimitMap = ("a" :> [i \in 1..RATE_LIMIT_REQUESTS |-> 0])
  /\ admitted = [ip \in Clients |->
                   IF ip = "a" THEN (0 :> RATE_LIMIT_REQUESTS) ELSE <<>>]
  /\ lastAdmit = [ip \in Clients |-> IF ip = "a" THEN 0 ELSE -1]
  /\ lastCheck = NoCheck
  /\ plainMap = ("a" :> [i \in 1..RATE_LIMIT_REQUESTS |-> 0])

Init == InitState /\ InitQuiet /\ retellKey = NoKey /\ focus = "rate"

InitCache ==
  InitState /\ InitQuiet /\ retellKey = NoKey /\ focus \in {"search", "product"}

InitTools == InitState /\ InitQuiet /\ retellKey = NoKey /\ focus = "tools"

\* the worker with or without a signing secret, its rate limiter fresh or
\* with the window of client "a" used up
InitFetch ==
  /\ InitState
  /\ InitQuiet \/ InitBusy
  /\ retellKey \in RetellKeys
  /\ focus = "fetch"

NextRate == CheckRateLimit \/ RateTick

NextCache ==
  SearchLookup \/ SearchReply \/ ProductLookup \/ ProductReply \/ CacheTick

\* the rate limiter alone, called by its clients as time passes
SpecRate == Init /\ [][NextRate]_vars

NextTools ==
  \/ SearchProductsStart
  \/ DirectReply
  \/ VariationReply
  \/ DetailReply
  \/ ToolCall
  \/ ToolReply

\* invocations of the tools, the shop answering each of their calls
SpecTools == InitTools /\ [][NextTools]_vars

InitRanking == InitState /\ InitQuiet /\ retellKey = NoKey /\ focus = "ranking"

NextRanking == SearchProductsStart \/ VariationReply \/ DetailReply

\* text searches whose variations the shop answers in any order, with lists
\* that repeat ids and lists in any order
SpecRanking == InitRanking /\ [][NextRanking]_vars

InitLive == InitState /\ InitQuiet /\ retellKey = NoKey /\ focus = "live"

NextLive == ToolCall \/ ResponseHeaders \/ TimerFires \/ ResponseBody

\* invocations of the tools with the steps of each upstream call apart.  A
\* timer that is armed fires (the runtime runs due timers); when the shop
\* sends headers or the rest of a body is up to the shop and the network,
\* and nothing obliges them
SpecLive == InitLive /\ [][NextLive]_vars /\ WF_vars(TimerFires)

InitPure ==
  InitState /\ InitQuiet /\ retellKey = NoKey /\ focus \in {"normalize", "shorten"}

NextPure == TypeQueryWord \/ NormalizeQuery \/ TypeNamePiece \/ ShortenName

\* the query normalizer and the listing truncation applied to queries and
\* names put together word by word
SpecPure == InitPure /\ [][NextPure]_vars

NextFetch == FetchReceive \/ BodyRead \/ SignatureVerified \/ HandlerDone

\* requests to the worker's fetch handler
SpecFetch == InitFetch /\ [][NextFetch]_vars

\* one of the two caches, filled and read by concurrent callers as time
\* passes; the caches share no state, so a run exercises one of them
SpecCache == InitCache /\ [][NextCache]_vars

(***************************************************************************)
(* The rate limiter's properties                                           *)
(***************************************************************************)
\* C1: a call of checkRateLimit is admitted when fewer than 100 calls of the
\* client were admitted in the 60000 ms that end now and rejected when 100
\* were, so that from an empty window exactly 100 calls are admitted and the
\* 101st is rejected; a call made once the window has fully elapsed since
\* the client's last admitted call is admitted again.
C1_RateLimitBoundary ==
  lastCheck.called =>
    /\ lastCheck.prior < RATE_LIMIT_REQUESTS => lastCheck.allowed
    /\ lastCheck.prior >= RATE_LIMIT_REQUESTS => ~lastCheck.allowed
    /\ lastCheck.sinceLast >= RATE_LIMIT_WINDOW_MS => lastCheck.allowed

\* the 101st call, in the last millisecond of the window of 100 admitted
\* calls, is rejected
C1_Witness ==
  /\ lastCheck.called
  /\ ~lastCheck.allowed
  /\ lastCheck.prior = RATE_LIMIT_REQUESTS
  /\ lastCheck.sinceLast = RATE_LIMIT_WINDOW_MS - 1

\* the TTL of the cache a lookup went to
TtlOf(name) == IF name = "search" THEN SEARCH_CACHE_TTL ELSE PRODUCT_CACHE_TTL

\* C3 (as the code has it): a lookup that finds an entry whose cachedAt, the
\* time at which the call that fetched it began, is T serves it with no call
\* to the shop when the lookup is made before T + TTL, and calls the shop
\* instead when it is made at T + TTL or later, in the search cache and in the
\* product cache; no entry is served more than TTL after it was set.
C3_CacheTtl ==
  (lastLookup.looked /\ lastLookup.present) =>
    /\ lastLookup.age < TtlOf(lastLookup.cache)
         => lastLookup.served /\ ~lastLookup.issued
    /\ lastLookup.age >= TtlOf(lastLookup.cache)
         => ~lastLookup.served /\ lastLookup.issued
    /\ lastLookup.sinceSet > TtlOf(lastLookup.cache) => ~lastLookup.served

\* a lookup of an entry exactly TTL after its cachedAt, less than TTL after it
\* was set, which went to the shop
C3_Witness ==
  /\ lastLookup.looked
  /\ lastLookup.present
  /\ lastLookup.cache = "search"
  /\ lastLookup.age = SEARCH_CACHE_TTL
  /\ lastLookup.sinceSet = SEARCH_CACHE_TTL - 1
  /\ lastLookup.issued

\* C3 as stated: an entry inserted at time T is served by every lookup before
\* T + TTL and by no lookup after T + TTL.
C3_AsStated ==
  (lastLookup.looked /\ lastLookup.present) =>
    /\ lastLookup.sinceSet < TtlOf(lastLookup.cache)
         => lastLookup.served /\ ~lastLookup.issued
    /\ lastLookup.sinceSet > TtlOf(lastLookup.cache)
         => ~lastLookup.served /\ lastLookup.issued

\* C4: in every reachable state the search cache holds at most 50 entries
\* and the product cache at most 100, however the calls that fill them
\* overlap.
C4_CacheBounded ==
  /\ Len(searchCache) <= SEARCH_CACHE_MAX
  /\ Len(productCache) <= PRODUCT_CACHE_MAX

\* an insertion into the full search cache, made while another call is
\* pending, after which the cache is full
C4_Witness ==
  /\ lastStore.stored
  /\ lastStore.cache = "search"
  /\ lastStore.sizeBefore = SEARCH_CACHE_MAX
  /\ Len(searchCache) = SEARCH_CACHE_MAX
  /\ cachePending # <<>>

\* C5 as stated: whenever an insertion evicts an entry, the evicted entry has
\* the oldest cachedAt of the entries the cache held.
C5_EvictsOldest ==
  lastStore.evicted => lastStore.evictedTime <= lastStore.oldestTime

\* the lower-cased name holds the term at place k, all of it within the
\* first 50 characters
TermWithinPrimary(fullName, term, k) ==
  /\ k + Len(term) - 1 <= 50
  /\ k + Len(term) - 1 <= Len(fullName)
  /\ \A d \in 1..Len(term) : LowerChar(fullName[k + d - 1]) = term[d]

NameHasBrand(fullName, brandTerms) ==
  \E i \in 1..Len(brandTerms) : \E k \in 1..50 :
     TermWithinPrimary(fullName, brandTerms[i], k)

\* C2: when the terms of the query hold a recognized brand, every product of
\* a successful result has one of the query's brand terms inside the first 50
\* characters of its lower-cased name; when no fetched candidate has, the
\* answer is the brand-specific failure, without products
C2_BrandFilter ==
  (sp.pc = "done" /\ Len(sp.brandTerms) > 0) =>
     /\ sp.result.success =>
          \A k \in 1..Len(sp.result.products) :
             NameHasBrand(sp.result.products[k].fullName, sp.brandTerms)
     /\ (/\ Len(sp.candidates) > 0
         /\ \A k \in 1..Len(sp.candidates) :
               ~NameHasBrand(sp.candidates[k].fullName, sp.brandTerms))
          => (/\ ~sp.result.success
              /\ sp.result.kind = "noBrand"
              /\ Len(sp.result.products) = 0)

\* a successful brand search that left out a fetched candidate whose name
\* holds the brand only beyond its first 50 characters
C2_Witness ==
  /\ sp.pc = "done"
  /\ Len(sp.brandTerms) > 0
  /\ sp.result.success
  /\ Len(sp.result.products) > 0
  /\ \E k \in 1..Len(sp.candidates) :
        /\ ~NameHasBrand(sp.candidates[k].fullName, sp.brandTerms)
        /\ \E i \in 1..Len(sp.brandTerms) :
              Includes(ToLower(sp.candidates[k].fullName), sp.brandTerms[i])
        /\ \A j \in 1..Len(sp.result.products) :
              sp.result.products[j].id # sp.candidates[k].id

\* C10: one invocation of searchProducts with a non-empty query issues at
\* most 8 upstream calls, at most 3 when the query is numeric, and at least
\* one unless the query has no variation or the cache answered a variation
C10_CallBudget ==
  /\ sp.calls <= 8
  /\ IsNumeric(sp.rawQuery) => sp.calls <= 3
  /\ (sp.pc = "done" /\ Len(sp.rawQuery) > 0 /\ sp.calls = 0) =>
        (Len(sp.variations) = 0 \/ sp.hits > 0)

\* a search that took eight calls: seven variations and the detail fetch
C10_Witness ==
  /\ sp.pc = "done"
  /\ sp.calls = 8
  /\ Len(sp.searched) = 7

\* C10 as stated: between 1 and 7 calls, fewer only when the cache answers
C10_AsStated ==
  (sp.pc = "done" /\ Len(sp.rawQuery) > 0) =>
     /\ sp.calls <= 7
     /\ sp.calls >= 1 \/ sp.hits > 0

\* a text of 9 characters, each a letter or a digit
NineAlphanumeric(text) ==
  ~(\/ Len(text) # 9
    \/ \E i \in 1..Len(text) :
          text[i] \notin UpperLetters \cup LowerLetters \cup Digits)

\* an address that has white space, not exactly one @, nothing before the @,
\* or no dot after the @ with a character on each side
MalformedEmail(text) ==
  \/ \E i \in 1..Len(text) : text[i] = " "
  \/ Cardinality({i \in 1..Len(text) : text[i] = "@"}) # 1
  \/ text[1] = "@"
  \/ ~ \E a \in 1..Len(text), d \in 1..Len(text) :
          /\ text[a] = "@"
          /\ text[d] = "."
          /\ d > a + 1
          /\ d < Len(text)

PositiveInteger(v) == v.kind = "number" /\ v.tenths > 0 /\ v.tenths % 10 = 0

GivenText(v) == v.kind = "string" /\ Len(v.text) > 0

BlankText(text) == \A i \in 1..Len(text) : text[i] = " "

ValidationErrors ==
  {"badReference", "badEmail", "badProductName", "badProductId", "describe"}

\* the tool has answered with the validation error kind, before any call
Rejected(kind) ==
  /\ tool.pc = "done"
  /\ ~tool.result.success
  /\ tool.result.kind = kind
  /\ tool.calls = 0

\* C9: a validation error is answered with success false and no upstream
\* call issued: an order reference that is not 9 alphanumeric characters, a
\* malformed email, a product id that is not a positive integer, a product
\* name with nothing to search, an empty ticket message, an empty or
\* white-space query; each for the argument the tool goes by
C9_ValidationErrors ==
  /\ (tool.pc = "done" /\ tool.result.kind \in ValidationErrors) =>
        ~tool.result.success /\ tool.calls = 0
  /\ (sp.pc = "done" /\ sp.result.kind = "askProduct") =>
        ~sp.result.success /\ sp.calls = 0
  /\ (sp.pc # "idle" /\ BlankText(sp.query)) =>
        sp.pc = "done" /\ sp.result.kind = "askProduct" /\ sp.calls = 0
  /\ (/\ tool.name = "getOrderStatus"
      /\ GivenText(tool.args.reference)
      /\ ~NineAlphanumeric(tool.args.reference.text)) => Rejected("badReference")
  /\ (/\ tool.name = "getOrderStatus"
      /\ ~GivenText(tool.args.reference)
      /\ GivenText(tool.args.email)
      /\ MalformedEmail(tool.args.email.text)) => Rejected("badEmail")
  /\ (/\ tool.name = "getTrackingInfo"
      /\ GivenText(tool.args.reference)
      /\ tool.args.order_id.kind = "undefined"
      /\ ~NineAlphanumeric(tool.args.reference.text)) => Rejected("badReference")
  /\ (/\ tool.name = "checkProductStock"
      /\ ~GivenText(tool.args.product_name)
      /\ ~PositiveInteger(tool.args.product_id)) => Rejected("badProductId")
  /\ (/\ tool.name = "checkProductStock"
      /\ tool.args.product_id.kind = "number"
      /\ tool.args.product_id.tenths # 0
      /\ ~PositiveInteger(tool.args.product_id)) => Rejected("badProductId")
  /\ (/\ tool.name = "checkProductStock"
      /\ GivenText(tool.args.product_name)
      /\ tool.args.product_id.kind = "undefined"
      /\ \A i \in 1..Len(tool.args.product_name.text) :
            tool.args.product_name.text[i] \in {" ", "[", "]", "|", ","})
       => Rejected("badProductName")
  /\ (/\ tool.name = "createSupportTicket"
      /\ \/ tool.args.message.kind = "undefined"
         \/ BlankText(tool.args.message.text)) => Rejected("describe")

\* getOrderStatus was given a reference of 9 characters, one of them a
\* hyphen, and answered with the validation error
C9_Witness ==
  /\ tool.name = "getOrderStatus"
  /\ Len(tool.args.reference.text) = 9
  /\ ~NineAlphanumeric(tool.args.reference.text)
  /\ Rejected("badReference")

\* the requests the fetch handler has taken up
AllRequests ==
  {inflight[i] : i \in 1..Len(inflight)}
  \cup (IF answered.pc = "none" THEN {} ELSE {answered})

Did(r, step) == \E k \in 1..Len(r.steps) : r.steps[k] = step

\* the work the fetch handler does for a request after the method check
RequestWork == {"readBody", "toolLookup", "signature", "parse", "handler", "upstream"}

\* C6: for every POST request checkRateLimit is called right after the
\* method check and before the body is read, the tool looked up, the
\* signature checked, the arguments parsed, the handler run or the shop
\* called; an OPTIONS request and a request with any other method are
\* answered without checkRateLimit being called
C6_RateLimitFirst ==
  \A r \in AllRequests :
     /\ \A k \in 1..Len(r.steps) :
           r.steps[k] \in RequestWork =>
              \E j \in 1..(k - 1) : r.steps[j] = "rateLimit"
     /\ r.method = "POST" =>
           /\ Len(r.steps) >= 2
           /\ r.steps[1] = "method"
           /\ r.steps[2] = "rateLimit"
           /\ lastCheck.called
     /\ r.method # "POST" =>
           /\ ~Did(r, "rateLimit")
           /\ r.status \in {200, 405}
           /\ r.steps = <<"method", "reply">>

\* a signed POST went through every step, the admission check second
C6_Witness ==
  /\ answered.method = "POST"
  /\ answered.status = 200
  /\ answered.steps = <<"method", "rateLimit", "readBody", "toolLookup",
                        "signature", "parse", "handler", "upstream", "reply">>

\* C6 as stated: whatever the method, the admission check comes before any
\* other processing of the request, the method check included
C6_AsStated ==
  \A r \in AllRequests :
     /\ Did(r, "rateLimit")
     /\ r.steps[1] = "rateLimit"

\* the signature header is missing, empty, or not the digest of the body
\* under the worker's key
BadSignature(r) ==
  \/ ~r.signature.present
  \/ r.signature.value = <<>>
  \/ r.signature.value # <<"hmac", retellKey.text, r.body>>

\* C7: with a signing secret configured, a request whose signature header is
\* missing or is not the HMAC of the raw body never gets to the parsing of
\* its arguments, runs no handler and causes no upstream call; it is
\* answered 401 unless it was turned away before the signature check (429,
\* 404 for an unknown tool, 500 for a body that cannot be read). Without a
\* secret no signature is checked
C7_SignatureRequired ==
  \A r \in AllRequests :
     /\ (r.method = "POST" /\ retellKey.kind = "string" /\ retellKey.text # ""
         /\ BadSignature(r)) =>
           /\ ~r.handlerRan
           /\ r.upstream = 0
           /\ ~Did(r, "parse")
           /\ r.pc = "done" =>
                /\ r.status \in {401, 404, 429, 500}
                /\ r.status = 500 => ~r.readable
                /\ Did(r, "signature") => r.status = 401
                /\ Did(r, "toolLookup") /\ r.status # 404 => r.status = 401
     /\ (retellKey.kind = "undefined" \/ retellKey.text = "") =>
           ~Did(r, "signature")

\* a request signed for another body was answered 401
C7_Witness ==
  /\ answered.method = "POST"
  /\ retellKey.text = "k1"
  /\ answered.signature.present
  /\ answered.signature.value = <<"hmac", "k1", <<"{","}","x">>>>
  /\ answered.status = 401
  /\ ~answered.handlerRan

\* C7 as stated: an admitted request for a tool whose signature is missing
\* or wrong is answered 401, and no handler runs for it
C7_AsStated ==
  (/\ answered.method = "POST"
   /\ Did(answered, "toolLookup")
   /\ answered.status # 404
   /\ BadSignature(answered)) =>
      /\ answered.status = 401
      /\ ~answered.handlerRan
      /\ answered.upstream = 0

\* C8: every request that gets past the admission check gets exactly one
\* reply, a JSON text; a body that cannot be read, arguments that do not
\* parse and a handler that throws end in the 500 reply; no exception leaves
\* the fetch handler
C8_AlwaysReplies ==
  \A r \in AllRequests :
     /\ ~r.threw
     /\ r.replies = (IF r.pc = "done" THEN 1 ELSE 0)
     /\ (r.pc = "done" /\ r.method = "POST") => r.json
     /\ (r.pc = "done" /\ Did(r, "readBody") /\ ~r.readable) => r.status = 500
     /\ (r.pc = "done" /\ Did(r, "parse") /\ r.body # <<"{","}">>) =>
           r.status = 500
     /\ (r.pc = "done" /\ r.handlerRan
         /\ r.path \in {<<"/","v","a","l","u","e","O","f">>}) => r.status = 500

\* a handler threw and the request was answered 500
C8_Witness ==
  /\ answered.handlerRan
  /\ answered.status = 500
  /\ answered.replies = 1
  /\ answered.json

\* C11: the failure of a direct lookup or of a variation search counts as no
\* ids and does not end the search: once some search has returned ids the
\* detail fetch is made whatever failed before it, and the answer is the
\* generic failure only when the detail fetch itself failed; with the
\* details back and a product left after the brand filter the search succeeds
C11_PartialFailures ==
  /\ sp.result.kind = "unable" => sp.detail = "failed"
  /\ (sp.pc = "done" /\ Len(sp.scores) > 0) =>
        sp.detail \in {"failed", "empty", "ok"}
  /\ (sp.pc = "done" /\ sp.detail = "failed") =>
        ~sp.result.success /\ sp.result.kind = "unable"
  /\ (/\ sp.pc = "done"
      /\ sp.detail = "ok"
      /\ \/ Len(sp.brandTerms) = 0
         \/ \E k \in 1..Len(sp.candidates) :
               NameHasBrand(sp.candidates[k].fullName, sp.brandTerms))
       => sp.result.success /\ sp.result.count > 0

\* a variation search failed, another returned ids, and the search succeeded
C11_Witness ==
  /\ sp.pc = "done"
  /\ sp.failed
  /\ sp.result.success
  /\ sp.result.kind = "found"
  /\ sp.result.count > 0

\* C11 as stated: whichever upstream call fails, a search in which some
\* variation returned ids is not aborted
C11_AsStated ==
  (sp.pc = "done" /\ Len(sp.scores) > 0) => sp.result.kind # "unable"

\* C12: a numeric query starts with the direct lookup and nothing else; a
\* product found ends the search with that single product and no variation
\* search; nothing found and a failed lookup go on to the text search of the
\* same query, whose only variation is the query itself
C12_NumericFastPath ==
  /\ (sp.pc # "idle" /\ ~IsNumeric(sp.rawQuery)) => sp.direct = "none"
  /\ (sp.pc # "idle" /\ IsNumeric(sp.rawQuery)) =>
        /\ sp.direct # "none"
        /\ sp.direct = "pending" =>
              sp.pc = "direct" /\ sp.calls = 1 /\ sp.searched = <<>>
        /\ sp.direct = "found" =>
              /\ sp.pc = "done"
              /\ sp.result.success
              /\ sp.result.kind = "direct"
              /\ sp.result.count = 1
              /\ Len(sp.result.products) = 1
              /\ sp.searched = <<>>
              /\ sp.calls = 1
        /\ sp.direct \in {"missing", "failed"} =>
              /\ sp.variations = <<sp.rawQuery>>
              /\ Len(sp.searched) >= 1
              /\ sp.searched[1] = 0
              /\ sp.pc = "done" =>
                    /\ sp.result.kind \in {"notFound", "unable", "noDetails",
                                           "noBrand", "found"}
                    /\ sp.result.kind = "unable" => sp.detail = "failed"

\* the direct lookup of a numeric query failed, and the text search of the
\* query found products
C12_Witness ==
  /\ sp.pc = "done"
  /\ IsNumeric(sp.rawQuery)
  /\ sp.direct = "failed"
  /\ sp.result.success
  /\ sp.result.kind = "found"
  /\ sp.calls = 3

ScenarioQuery == <<"1","6","g","b"," ","r","t","x"," ","5","0"," ","s","e","r","i","e","s">>

\* the product id is among the products of the result
Returned(id) ==
  \E k \in 1..Len(sp.result.products) : sp.result.products[k].id = id

\* the search of the scenario's query has ended, every call answered by the
\* shop that holds the card and the cable
ScenarioDone ==
  /\ sp.pc = "done"
  /\ sp.query = ScenarioQuery
  /\ sp.asShop

\* C13: the search for "16gb rtx 50 series" in the shop that holds the card
\* and the cable returns the card and leaves out the cable
C13_CableExcluded ==
  ScenarioDone => /\ sp.result.success
                  /\ Returned(1)
                  /\ ~Returned(2)

MemoryExpansions == {<<"1","6","G","B">>, <<"1","6"," ","G","B">>}

GpuExpansions == {<<"R","T","X"," ","5","0","6","0">>, <<"R","T","X"," ","5","0","7","0">>}

\* the texts of the variations that were searched
SearchedTexts == {sp.variations[sp.searched[k] + 1] : k \in 1..Len(sp.searched)}

\* C14: in the scenario the card ends with score at least 2: the variations
\* searched are the first four (the cleaned query, its terms, "RTX 5060"
\* and "RTX 5070"), each of which matches the card; the memory expansions
\* "16GB" and "16 GB" are variations but are never searched
C14_CardScore ==
  ScenarioDone =>
     /\ ScoreOf(sp.scores, 1) >= 2
     /\ sp.searched = <<0, 1, 2, 3>>
     /\ GpuExpansions \subseteq SearchedTexts
     /\ MemoryExpansions \subseteq SeqToSet(sp.variations)
     /\ MemoryExpansions \cap SearchedTexts = {}

\* the scenario ended with the card matched by all four searches
C14_Witness ==
  /\ ScenarioDone
  /\ ScoreOf(sp.scores, 1) = 4
  /\ sp.result.success

\* C14 as stated: the card's score is at least 2, a GPU expansion and a
\* memory expansion having been searched
C14_AsStated ==
  ScenarioDone =>
     /\ ScoreOf(sp.scores, 1) >= 2
     /\ GpuExpansions \cap SearchedTexts # {}
     /\ MemoryExpansions \cap SearchedTexts # {}

\* C15 as stated: no invocation of a tool requests an endpoint again after
\* a call to it failed, the carrier list during a tracking lookup with a
\* stale carrier cache included, and no search searches the same text twice
C15_NoRetries ==
  /\ ~tool.retried
  /\ \A i \in 1..Len(sp.searched) : \A j \in 1..Len(sp.searched) :
        i # j => sp.variations[sp.searched[i] + 1] #
                 sp.variations[sp.searched[j] + 1]

\* C16 as stated: with the timer of each upstream call firing, every
\* invocation of a tool that awaits upstream calls eventually returns, the
\* reading of the response bodies included
C16_EveryRequestAnswered == (tool.pc = "running") ~> (tool.pc = "done")

\* the oldest of the timestamps admitted for ip that the window ending now
\* still holds
OldestSurviving(ip) ==
  LET inside == {t \in DOMAIN admitted[ip] : t > now - RATE_LIMIT_WINDOW_MS}
  IN CHOOSE m \in inside : \A t \in inside : m <= t

\* C17: when checkRateLimit rejects a call, the resetMs it reports is the
\* time until the oldest timestamp still in the client's window leaves the
\* window, oldest + 60000 - now, which is positive, and the Retry-After
\* derived from it is that time in seconds, rounded up.
C17_ResetMs ==
  (lastCheck.called /\ ~lastCheck.allowed /\ lastCheck.at = now) =>
    /\ lastCheck.resetMs =
          OldestSurviving(lastCheck.ip) + RATE_LIMIT_WINDOW_MS - now
    /\ lastCheck.resetMs > 0
    /\ RetryAfter(lastCheck.resetMs) * 1000 >= lastCheck.resetMs
    /\ (RetryAfter(lastCheck.resetMs) - 1) * 1000 < lastCheck.resetMs

\* a call rejected in the last millisecond of the window's oldest
\* timestamp, the newest timestamp being of this very millisecond
C17_Witness ==
  /\ lastCheck.called
  /\ ~lastCheck.allowed
  /\ lastCheck.at = now
  /\ lastCheck.sinceLast = 0
  /\ lastCheck.resetMs = 1
  /\ RetryAfter(lastCheck.resetMs) = 1

(***************************************************************************)
(* The pure functions' properties                                          *)
(***************************************************************************)
\* C18: for every query, the variations normalizeSearchQuery returns hold
\* no string twice.
C18_VariationsUnique == out.fn = "normalize" => ~HasDup(out.variations)

\* "asus laptop": the brand combination repeats the cleaned query, and the
\* variations returned are "asus laptop" and "asus"
C18_Witness ==
  /\ out.fn = "normalize"
  /\ arg = <<"a","s","u","s"," ","l","a","p","t","o","p">>
  /\ out.variations = <<<<"a","s","u","s"," ","l","a","p","t","o","p">>, <<"a","s","u","s">>>>

\* C19 as stated: for every query, the terms normalizeSearchQuery returns
\* hold no term twice, even when the query repeats a word
C19_TermsUnique == out.fn = "normalize" => ~HasDup(out.terms)

\* the white-space-delimited tokens of a text
Tokens(text) == SelectSeq(SplitSpaces(text), LAMBDA w : Len(w) > 0)

\* the words a name was put together from
TypedWords == [i \in 1..Len(typed) |-> typed[i].word]

\* how many words come before the first technical specification of the
\* name, -1 when it has none
FirstSpecTyped ==
  IF \A i \in 1..Len(typed) : ~typed[i].spec THEN -1
  ELSE (CHOOSE i \in 1..Len(typed) :
          typed[i].spec /\ \A j \in 1..(i - 1) : ~typed[j].spec) - 1

\* min(5, max(3, index of the first specification)), 5 without one
ListingLimit == IF FirstSpecTyped < 0 THEN 5 ELSE Min2(5, Max2(3, FirstSpecTyped))

\* C20 (as the code has it): shortenForListing returns the first
\* min(5, max(3, index of the first spec word)) words of the name, or all
\* of them when the name has fewer (the first 5 at most when no word is a
\* spec word), joined by single spaces: at most 5 tokens, at least 3 when
\* the name has 3 words or more, at least 1 when the name has a word, and
\* the empty string when the name has no word at all.
C20_ListingBounds ==
  out.fn = "shorten" =>
    /\ Tokens(out.text) = SubSeq(TypedWords, 1, Min2(ListingLimit, Len(typed)))
    /\ out.text = JoinSpace(Tokens(out.text))
    /\ Len(Tokens(out.text)) <= 5
    /\ Len(typed) >= 3 => Len(Tokens(out.text)) >= 3
    /\ Len(typed) >= 1 => Len(Tokens(out.text)) >= 1
    /\ Len(typed) = 0 => out.text = <<>>

\* a name of six words whose second is a spec word is cut to three words
C20_Witness ==
  /\ out.fn = "shorten"
  /\ Len(typed) = 6
  /\ FirstSpecTyped = 1
  /\ Len(Tokens(out.text)) = 3

\* C20 as stated: every name that is not empty is cut to between 1 and 5
\* tokens, the first min(5, max(3, index of the first spec word)) of the
\* name, and to 3 tokens at least when the name has that many
C20_AsStated ==
  (out.fn = "shorten" /\ Len(arg) > 0) =>
    /\ Len(Tokens(out.text)) >= 1
    /\ Len(Tokens(out.text)) <= 5
    /\ Tokens(out.text) = SubSeq(TypedWords, 1, Min2(ListingLimit, Len(typed)))
    /\ Len(typed) >= 3 => Len(Tokens(out.text)) >= 3

\* C21: for every client and every sequence of calls at times that never
\* decrease, the calls admitted in any window of 60000 ms number at most
\* RATE_LIMIT_REQUESTS, and the list stored for the client never holds more
\* than RATE_LIMIT_REQUESTS timestamps. (The count of a window is largest
\* when the window ends at an admitted call, which is a state of the run.)
C21_WindowBound ==
  \A ip \in Clients :
     /\ AdmittedInWindow(ip) <= RATE_LIMIT_REQUESTS
     /\ Len(StoredTimestamps(ip)) <= RATE_LIMIT_REQUESTS

\* a client whose window is full of calls admitted at two different times
C21_Witness ==
  \E ip \in Clients :
     /\ AdmittedInWindow(ip) = RATE_LIMIT_REQUESTS
     /\ Len(StoredTimestamps(ip)) = RATE_LIMIT_REQUESTS
     /\ Cardinality(DOMAIN admitted[ip]) = 2
     /\ lastCheck.called /\ lastCheck.ip = ip /\ ~lastCheck.allowed

\* C27: a call that checkRateLimit rejects leaves the list stored for the
\* client as it was: the list holds the RATE_LIMIT_REQUESTS admitted
\* timestamps of the window and nothing for the rejected call, so the call
\* that follows rejected ones is admitted as soon as fewer than
\* RATE_LIMIT_REQUESTS admitted timestamps remain in the window.
C27_RejectedKeepsList ==
  /\ (lastCheck.called /\ ~lastCheck.allowed /\ lastCheck.at = now) =>
        /\ StoredTimestamps(lastCheck.ip) = lastCheck.before
        /\ Len(lastCheck.before) = RATE_LIMIT_REQUESTS
        /\ lastCheck.prior = RATE_LIMIT_REQUESTS
  /\ (lastCheck.called /\ lastCheck.afterRejected
        /\ lastCheck.prior < RATE_LIMIT_REQUESTS) => lastCheck.allowed

\* a client that was rejected calls again when its admitted timestamps
\* have left the window, and is admitted
C27_Witness ==
  /\ lastCheck.called /\ lastCheck.afterRejected /\ lastCheck.allowed
  /\ lastCheck.dropped = RATE_LIMIT_REQUESTS
  /\ lastCheck.at = RATE_LIMIT_WINDOW_MS

\* C30: the cleanup deletes only clients none of whose timestamps lies in
\* the current window, so checkRateLimit returns the same allowed,
\* remaining and resetMs as a limiter that is given the same calls and
\* never runs the cleanup.
C30_SweepInvisible ==
  /\ lastCheck.called =>
        /\ lastCheck.allowed = lastCheck.plain.allowed
        /\ lastCheck.remaining = lastCheck.plain.remaining
        /\ lastCheck.resetMs = lastCheck.plain.resetMs
  /\ \A ip \in DOMAIN plainMap \ DOMAIN rateLimitMap :
        \A i \in 1..Len(plainMap[ip]) :
           plainMap[ip][i] <= now - RATE_LIMIT_WINDOW_MS
  /\ \A ip \in DOMAIN rateLimitMap :
        ip \in DOMAIN plainMap /\ rateLimitMap[ip] = plainMap[ip]

\* the cleanup has deleted a client, and that client has called again
C30_Witness ==
  /\ lastCheck.called /\ lastCheck.allowed
  /\ lastCheck.before = <<>>
  /\ lastCheck.ip \in DOMAIN plainMap
  /\ Len(plainMap[lastCheck.ip]) = 1
  /\ lastCheck.sinceLast >= RATE_LIMIT_WINDOW_MS

SearchedVariations == {sp.searched[k] : k \in 1..Len(sp.searched)}

\* the ids of the k-th id list that the invocation has scored
ScoredIds(k) == {sp.results[k].ids[i] : i \in 1..Len(sp.results[k].ids)}

\* the threshold of candidates: 10 when a term of the query is a brand
CandidateThreshold ==
  IF \E i \in 1..Len(sp.terms) : sp.terms[i] \in TECH_BRANDS THEN 10 ELSE 5

\* C22: once the first variation has been searched, variations 1 to 3 (as
\* many of them as the query has) are searched exactly when the first
\* variation returned fewer distinct ids than the threshold, 10 for a query
\* with a brand term and 5 otherwise, and the query has more than one
\* variation; when the first variation alone reaches the threshold none of
\* them is searched.
C22_AdditionalBatch ==
  (sp.pc # "idle" /\ Len(sp.results) >= 1) =>
    /\ sp.results[1].idx = 0
    /\ \A v \in 1..3 :
          v \in SearchedVariations <=>
            /\ Cardinality(ScoredIds(1)) < CandidateThreshold
            /\ Len(sp.variations) > 1
            /\ v < Len(sp.variations)

\* a query with a brand term whose first variation returned five ids, fewer
\* than 10, and whose variations 1 to 3 were searched
C22_Witness ==
  /\ sp.pc = "done"
  /\ CandidateThreshold = 10
  /\ Cardinality(ScoredIds(1)) = 5
  /\ {1, 2, 3} \subseteq SearchedVariations

\* C23: variations 4 to 6 (as many of them as the query has) are searched
\* exactly when the first variation and variations 1 to 3 returned no id at
\* all and the query has more than 4 variations; they are never searched
\* once an id has been found.
C23_FallbackBatch ==
  (sp.pc \in {"fallback", "detail"} \/ (sp.pc = "done" /\ Len(sp.results) >= 1)) =>
    \A v \in 4..6 :
       v \in SearchedVariations <=>
         /\ \A k \in 1..Len(sp.results) :
               sp.results[k].idx <= 3 => ScoredIds(k) = {}
         /\ Len(sp.variations) > 4
         /\ v < Len(sp.variations)

\* a query of five variations whose first four returned nothing: the fifth
\* was searched, and found the products returned
C23_Witness ==
  /\ sp.pc = "done"
  /\ Len(sp.variations) = 5
  /\ sp.searched = <<0, 1, 2, 3, 4>>
  /\ sp.result.success
  /\ sp.result.count > 1

\* the number of the scored id lists that hold id
VariationsWith(id) ==
  Cardinality({k \in 1..Len(sp.results) : id \in ScoredIds(k)})

\* C24 as stated: when the candidates are ranked, the score of every
\* candidate id is the number of the executed variations whose result holds
\* the id, at least 1 and at most the number of executed variations, also
\* when the shop's lists repeat an id.
C24_ScoreIsVariationCount ==
  (sp.pc \in {"detail", "done"} /\ Len(sp.scores) > 0) =>
    \A e \in 1..Len(sp.scores) :
       /\ sp.scores[e].score = VariationsWith(sp.scores[e].key)
       /\ sp.scores[e].score >= 1
       /\ sp.scores[e].score <= Len(sp.results)

\* where id was seen first: the place of the first scored list that holds
\* it (lists are scored in the order of their variations) and its first
\* place in that list
FirstList(id) ==
  CHOOSE k \in 1..Len(sp.results) :
     /\ id \in ScoredIds(k)
     /\ \A h \in 1..(k - 1) : id \notin ScoredIds(h)

FirstPlace(id) ==
  CHOOSE i \in 1..Len(sp.results[FirstList(id)].ids) :
     /\ sp.results[FirstList(id)].ids[i] = id
     /\ \A h \in 1..(i - 1) : sp.results[FirstList(id)].ids[h] # id

SeenBefore(a, b) ==
  \/ sp.results[FirstList(a)].idx < sp.results[FirstList(b)].idx
  \/ /\ FirstList(a) = FirstList(b)
     /\ FirstPlace(a) < FirstPlace(b)

\* a ranks before b: the higher score, or the same score and seen first
RanksBefore(a, b) ==
  \/ ScoreOf(sp.scores, a) > ScoreOf(sp.scores, b)
  \/ /\ ScoreOf(sp.scores, a) = ScoreOf(sp.scores, b)
     /\ SeenBefore(a, b)

\* C25: the ids whose details are fetched and the products returned are in
\* the order of descending score, ids of equal score in the order in which
\* they were seen first (by variation index, then by place in the list),
\* whatever the order in which the searches of a batch complete and the
\* order in which the detail fetch lists its products.
C25_RankedOrder ==
  /\ sp.pc \in {"detail", "done"} =>
        \A k \in 1..(Len(sp.sortedIds) - 1) :
           RanksBefore(sp.sortedIds[k], sp.sortedIds[k + 1])
  /\ (sp.pc = "done" /\ sp.result.success /\ sp.result.kind = "found") =>
        \A k \in 1..(Len(sp.result.products) - 1) :
           RanksBefore(sp.result.products[k].id, sp.result.products[k + 1].id)

\* five products returned in an order that is neither the order of the Map
\* nor an order of ids: the scores differ, and ids of equal score are in the
\* order in which they were seen
C25_Witness ==
  /\ sp.pc = "done"
  /\ sp.result.success
  /\ sp.result.kind = "found"
  /\ [k \in 1..Len(sp.result.products) |-> sp.result.products[k].id]
        = <<2, 1, 5, 4, 3>>
  /\ [k \in 1..Len(sp.scores) |-> sp.scores[k].key] = <<5, 4, 3, 2, 1>>

\* Math.min(limit or 5, 10) of the limit argument, 0 being the absent limit
LimitOrDefault(limitArg) ==
  IF (IF limitArg = 0 THEN 5 ELSE limitArg) < 10
    THEN (IF limitArg = 0 THEN 5 ELSE limitArg) ELSE 10

\* C26 as stated: for every limit argument, absent, zero, negative or
\* greater than 10, a text search that succeeds returns at least 1 product
\* and at most min(limit or 5, 10) products, never more than 10.
C26_ResultCount ==
  (sp.pc = "done" /\ sp.result.success /\ sp.result.kind = "found") =>
    /\ sp.result.count = Len(sp.result.products)
    /\ sp.result.count >= 1
    /\ sp.result.count <= LimitOrDefault(sp.limitArg)
    /\ sp.result.count <= 10

\* C28: no variation of index 7 or more is searched, and an invocation
\* searches at most 7 variations, each at most once, however many variations
\* normalizeSearchQuery returns.
C28_VariationCap ==
  /\ Len(sp.searched) <= 7
  /\ \A k \in 1..Len(sp.searched) :
        /\ sp.searched[k] \in 0..6
        /\ sp.searched[k] < Len(sp.variations)
        /\ \A h \in 1..(k - 1) : sp.searched[h] # sp.searched[k]
  /\ \A j \in 1..Len(sp.slots) : sp.slots[j].idx \in 0..6

\* a query of ten variations of which variations 0 to 6 were searched and
\* the last of them found products
C28_Witness ==
  /\ sp.pc = "done"
  /\ Len(sp.variations) = 10
  /\ sp.searched = <<0, 1, 2, 3, 4, 5, 6>>
  /\ Len(sp.results) = 7
  /\ ScoredIds(7) # {}
  /\ \A k \in 1..6 : ScoredIds(k) = {}

====
